---- MODULE Spec2Model ----
(***************************************************************************)
(* Coordination engine of the USDA vision camera system: the state store,  *)
(* the two event buses (the module-global one the publish_* helpers use    *)
(* and the instance the components subscribe to), the bus-client message   *)
(* handler, the per-camera recorder with its capture worker, the camera    *)
(* manager and the auto-recording controller with its retry scheduler.     *)
(*                                                                         *)
(* Operations of the program are pure operators over a record `s` holding  *)
(* the whole program state, so that a handler that calls other components  *)
(* synchronously is the composition of their operators; an action applies  *)
(* one handler to the current state (St) and stores the result (Assign).   *)
(***************************************************************************)
EXTENDS Integers, Sequences, FiniteSets, TLC

\* ---------------------------------------------------------------- bounds
\* wall clock, in ticks of one retry delay; file names carry the tick
MaxClock == 2
\* recorder start calls explored in one behaviour
MaxStarts == 2
\* frames a capture worker writes in one behaviour
MaxFrames == 2
\* events published on the event bus under test
MaxBusEvents == 2
\* mutations of the recording index in one behaviour
MaxIndexOps == 2
\* bus messages / machine events explored in one behaviour
MaxMsgs == 2
\* largest configured auto_recording_max_retries explored
MaxRetriesCfg == 3
\* configured auto_recording_retry_delay_seconds, in ticks
RetryDelay == 1
\* recorder start calls explored with the controller under test
MaxCtlStarts == 4
\* machine_state_changed events published on the instance bus
MaxEvents == 2

\* ------------------------------------------------------- configuration
Cameras == {"camera1"}
Machines == {"vibratory_conveyor"}

\* CameraConfig.machine_topic of the default configuration
machine_topic(c) == "vibratory_conveyor"

\* MQTTConfig.topics: the machines that have a subscribed topic
topic_to_machine == Machines

\* ----------------------------------------------------------- file names
\* A recording id is the output path <storage_path of camera>/<filename>;
\* the file name is built from a name pattern and the second of the clock.
FileKinds == {"recording", "manual", "auto", "clip"}
Files == [cam : Cameras, kind : FileKinds, ts : 0..MaxClock]
NoFile == [cam |-> "none", kind |-> "none", ts |-> 0]
MkFile(c, k, t) == [cam |-> c, kind |-> k, ts |-> t]

\* RecordingState, plus "none" for an id that is not a key of _recordings
SessionStates == {"none", "recording", "stopping", "idle", "error"}
\* MachineState
MachineStates == {"unknown", "on", "off", "error"}

VARIABLES
    clock,        \* now_atlanta(), in ticks
    machines,     \* StateManager._machines[m].state
    camRec,       \* StateManager._cameras[c].is_recording
    camFile,      \* StateManager._cameras[c].current_recording_file
    sessions,     \* StateManager._recordings[id].state
    autoActive,   \* CameraInfo.auto_recording_active
    failCount,    \* CameraInfo.auto_recording_failure_count
    lastError,    \* CameraInfo.auto_recording_last_error is set
    recording,    \* CameraRecorder.recording of camera_recorders[c]
    hCamera,      \* CameraRecorder.hCamera is open
    worker,       \* CameraRecorder._recording_thread: none / alive / done
    outFile,      \* CameraRecorder.output_filename
    pubStarted,   \* recording_started events in the global bus history
    pubStopped,   \* recording_stopped events in the global bus history
    pubError,     \* recording_error events in the global bus history
    pubMachine,   \* machine_state_changed events in the global bus history
    instMachine,  \* machine_state_changed events in the instance bus history
    index,        \* StorageManager.file_index["files"][id].status
    queue,        \* AutoRecordingManager._retry_queue, in insertion order
    batch,        \* cameras_to_retry of the running _retry_loop iteration
    maxRetries,   \* CameraConfig.auto_recording_max_retries
    autoEnabled,  \* CameraConfig.auto_start_recording_enabled
    msgCount,     \* MQTTMessageHandler.message_count
    errCount,     \* MQTTMessageHandler.error_count
    starts,       \* number of CameraRecorder.start_recording calls so far
    settings,     \* exposure_ms / gain / target_fps of the camera's config
    frames,       \* CameraRecorder.frame_count
    ctlLog,       \* results of the controller's start attempts since the
                  \* last machine on it handled (observation only)
    hist,         \* what the last operation did (observation only)
    \* the bus client (MQTTClient) and its loop thread
    running,             \* MQTTClient.running
    connected,           \* MQTTClient.connected
    reconnect_attempts,  \* the counter of _run_loop
    loopPc,              \* where _run_loop is: top / process / ended
    link,                \* the current paho client's session with the
                         \* broker: none / sent (CONNECT sent) / up / down
    subscribed,          \* topics (by machine) the current client subscribed
    failedAttempts,      \* consecutive connection attempts that were not
                         \* granted (observation only)
    missed,              \* a message was published on a configured topic
                         \* while the connected client had no subscription
                         \* for it (observation only)
    \* one EventSystem and the threads that publish on it
    event_history,       \* EventSystem._event_history, as event numbers
    subscribers,         \* EventSystem._subscribers[event_type]
    publisher,           \* per publishing thread: where it is in publish
    received,            \* per callback: the events it was called with
    \* the recording index file of the StorageManager
    disk,                \* file_index.json: state and, if complete, content
    savePc,              \* where _save_file_index is: idle / opened / writing
    prevDisk,            \* the file as it was when the running save began
    crashed,             \* the process has died and was not restarted yet
    indexOps,            \* index mutations so far
    \* the storage directory and the maintenance operations on the index
    fsFiles,             \* the recording files that exist on disk
    loaded,              \* StorageManager.__init__ has run on the directory
    report,              \* what the last index operation returned
    storeOps,            \* index operations so far
    \* the callers of the State Store
    refs,                \* cameras whose CameraInfo a caller got from a read
    lockHeld,            \* the last step ran inside "with self._lock"
    lastStep,            \* kind of the last State Store step
    stateOps,            \* State Store steps so far
    \* the preview streamers
    streaming,           \* CameraStreamer.streaming, per camera
    sCamera,             \* the streamer holds a device handle of its own
    streamThread,        \* the streamer's _streaming_thread: none / alive
    streamLast,          \* the last streaming call and what it returned
    streamOps,           \* streaming calls so far
    \* one streamer's frame ring, its loop and its readers
    frame_queue,         \* CameraStreamer._frame_queue, oldest frame first
    streamPc,            \* where _streaming_loop is with the frame in hand
    pending,             \* the frame in hand (0: none)
    frameNo,             \* frames grabbed so far
    loopLog,             \* how the loop's last frame fared
    \* USDAVisionSystem.stop
    stopPc,              \* the component stop() turns to next
    stopped,             \* the components stop() has stopped, in order
    serving,             \* the uvicorn thread of the API server serves
    \* camera discovery and the recorders of the camera manager
    available_cameras,   \* number of devices CameraEnumerateDevice found
    enabled,             \* CameraConfig.enabled, per configured camera
    camStatus,           \* CameraInfo.status in the State Store
    camera_recorders,    \* cameras that have a recorder registered
    discLast,            \* the last discovery operation and its subject
    discOps,             \* discovery operations so far
    \* the start-recording route of the API server
    apiPc,               \* where the route handler is: idle / called
    request,             \* the request in hand and what the manager did
    response,            \* the last StartRecordingResponse
    \* one call of MQTTMessageHandler._normalize_payload
    payloadIn,           \* the payload argument
    normalized,          \* the value returned (<<"?">> before the call)
    \* what the bus client's callbacks tell the rest of the system
    mqtt_connected,      \* StateManager._mqtt_connected
    announced,           \* the last MQTT_CONNECTED / MQTT_DISCONNECTED
                         \* event published: none / connected / disconnected
    \* the locks of the components and the threads that take them
    lockOwner,           \* per lock: the thread that holds it, or none
    lockDepth,           \* per lock: how often its owner has acquired it
    todo,                \* per thread: what is left of the call it is in
    shutdownStarted,     \* USDAVisionSystem.stop() has been called
    \* the recording index as the StorageManager keys it
    file_index,          \* file_index["files"]: file_id -> entry
    \* the controller's switch
    sysAutoEnabled,      \* config.system.auto_recording_enabled
    autoStarted,         \* AutoRecordingManager.start() has been called
    autoRunning,         \* AutoRecordingManager.running (retry thread up)
    \* what the machines were last reported to be
    lastEvent,           \* state of the last machine_state_changed event
    \* the threads that call into the StorageManager
    storePc              \* per thread: the operation it is in and where

mqttVars == <<running, connected, reconnect_attempts, loopPc, link,
              subscribed, failedAttempts, missed>>

busVars == <<event_history, subscribers, publisher, received>>

indexVars == <<disk, savePc, prevDisk, crashed, indexOps>>

storeVars == <<fsFiles, loaded, report, storeOps>>

stateVars == <<refs, lockHeld, lastStep, stateOps>>

streamVars == <<streaming, sCamera, streamThread, streamLast, streamOps>>

ringVars == <<frame_queue, streamPc, pending, frameNo, loopLog>>

downVars == <<stopPc, stopped, serving>>

discVars == <<available_cameras, enabled, camStatus, camera_recorders,
              discLast, discOps>>

routeVars == <<apiPc, request, response>>

normVars == <<payloadIn, normalized>>

mirrorVars == <<mqtt_connected, announced>>

guardVars == <<storePc>>

seenVars == <<lastEvent>>

switchVars == <<sysAutoEnabled, autoStarted, autoRunning>>

lockVars == <<lockOwner, lockDepth, todo, shutdownStarted>>

\* the variables of the specifications that split a handler into steps
lateVars ==
    <<routeVars, normVars, mirrorVars, guardVars, seenVars, switchVars,
      file_index, lockVars>>
restOfRoute ==
    <<normVars, mirrorVars, guardVars, seenVars, switchVars, file_index, lockVars>>
restOfNorm ==
    <<routeVars, mirrorVars, guardVars, seenVars, switchVars, file_index, lockVars>>
restOfMirror ==
    <<routeVars, normVars, guardVars, seenVars, switchVars, file_index, lockVars>>
restOfGuard ==
    <<routeVars, normVars, mirrorVars, seenVars, switchVars, file_index, lockVars>>
restOfSeen ==
    <<routeVars, normVars, mirrorVars, guardVars, switchVars, file_index, lockVars>>
restOfSwitch ==
    <<routeVars, normVars, mirrorVars, guardVars, seenVars, file_index, lockVars>>
restOfKeyed ==
    <<routeVars, normVars, mirrorVars, guardVars, seenVars, switchVars,
      lockVars>>
restOfLocks ==
    <<routeVars, normVars, mirrorVars, guardVars, seenVars, switchVars,
      file_index>>

\* the variables of the specifications after the index file's
addVars == <<storeVars, stateVars, streamVars, ringVars, downVars,
             discVars, lateVars>>

\* for the actions of one of these specifications, the variables of the
\* others
restOfStore ==
    <<stateVars, streamVars, ringVars, downVars, discVars,
      lateVars>>
restOfState ==
    <<storeVars, streamVars, ringVars, downVars, discVars,
      lateVars>>
restOfStream ==
    <<storeVars, stateVars, ringVars, downVars, discVars,
      lateVars>>
restOfRing ==
    <<storeVars, stateVars, streamVars, downVars, discVars,
      lateVars>>
restOfDown ==
    <<storeVars, stateVars, ringVars, discVars,
      lateVars>>
restOfDisc ==
    <<storeVars, stateVars, streamVars, ringVars, downVars,
      lateVars>>
oldAddVars ==
    <<storeVars, stateVars, streamVars, ringVars, downVars, discVars>>

\* the variables outside the record St
extraVars == <<mqttVars, busVars, indexVars, addVars>>

coreVars == <<clock, machines, camRec, camFile, sessions, autoActive, failCount,
          lastError, recording, hCamera, worker, outFile, pubStarted,
          pubStopped, pubError, pubMachine, instMachine, index, queue, batch,
          maxRetries, autoEnabled, msgCount, errCount, starts, settings,
          frames, ctlLog, hist>>

vars == <<coreVars, extraVars>>

\* the program state as one record
St ==
    [clock |-> clock, machines |-> machines, camRec |-> camRec,
     camFile |-> camFile, sessions |-> sessions, autoActive |-> autoActive,
     failCount |-> failCount, lastError |-> lastError,
     recording |-> recording, hCamera |-> hCamera, worker |-> worker,
     outFile |-> outFile, pubStarted |-> pubStarted,
     pubStopped |-> pubStopped, pubError |-> pubError,
     pubMachine |-> pubMachine, instMachine |-> instMachine,
     index |-> index,
     queue |-> queue, batch |-> batch, maxRetries |-> maxRetries,
     autoEnabled |-> autoEnabled, msgCount |-> msgCount,
     errCount |-> errCount, starts |-> starts, settings |-> settings,
     frames |-> frames, ctlLog |-> ctlLog, hist |-> hist, ret |-> FALSE]

AssignCore(s) ==
    /\ clock' = s.clock
    /\ machines' = s.machines
    /\ camRec' = s.camRec
    /\ camFile' = s.camFile
    /\ sessions' = s.sessions
    /\ autoActive' = s.autoActive
    /\ failCount' = s.failCount
    /\ lastError' = s.lastError
    /\ recording' = s.recording
    /\ hCamera' = s.hCamera
    /\ worker' = s.worker
    /\ outFile' = s.outFile
    /\ pubStarted' = s.pubStarted
    /\ pubStopped' = s.pubStopped
    /\ pubError' = s.pubError
    /\ pubMachine' = s.pubMachine
    /\ instMachine' = s.instMachine
    /\ index' = s.index
    /\ queue' = s.queue
    /\ batch' = s.batch
    /\ maxRetries' = s.maxRetries
    /\ autoEnabled' = s.autoEnabled
    /\ msgCount' = s.msgCount
    /\ errCount' = s.errCount
    /\ starts' = s.starts
    /\ settings' = s.settings
    /\ frames' = s.frames
    /\ ctlLog' = s.ctlLog
    /\ hist' = s.hist

\* an operation of the components held in St
Assign(s) == AssignCore(s) /\ UNCHANGED extraVars

\* the observation record of an operation
\*   op        the operation, cam its camera, at the clock when it ran
\*   file      the camera's current recording file before the operation
\*   wasRec    recorder and state store both had the camera recording
\*   outcome   what the device did on the start attempt of the operation
\*   ok        the value the operation returned
\*   from, to  machine state before and after a bus message
\*   differs   the normalized payload differed from the machine's state
\*   delivered machine_state_changed events handed to subscribers
\*   errors    recording_error events published during the operation
\*   ctlStarts start attempts the controller issued during the operation
\*   stale     the retry ran for a dict a machine off had cancelled
NoHist ==
    [op |-> "none", cam |-> "none", at |-> 0, file |-> NoFile,
     wasRec |-> FALSE, outcome |-> "none", ok |-> FALSE, from |-> "none",
     to |-> "none", differs |-> FALSE, delivered |-> 0, errors |-> 0,
     ctlStarts |-> 0, stale |-> FALSE]

\* ------------------------------------------------------------ StateManager
\* MachineState(state.lower()) with the ValueError fallback to UNKNOWN
ToMachineState(state) ==
    IF state \in MachineStates THEN state ELSE "unknown"

\* update_machine_state: writes the record, s.ret = the state changed
StateManager_update_machine_state(s, m, state) ==
    [s EXCEPT !.machines[m] = ToMachineState(state),
              !.ret = (s.machines[m] # ToMachineState(state))]

StateManager_set_camera_recording(s, c, rec, f) ==
    [s EXCEPT !.camRec[c] = rec, !.camFile[c] = f]

\* start_recording: a new RecordingInfo (state RECORDING) under the id
StateManager_start_recording(s, c, f) ==
    StateManager_set_camera_recording(
        [s EXCEPT !.sessions[f] = "recording"], c, TRUE, f)

StateManager_stop_recording(s, f) ==
    IF s.sessions[f] = "none"
    THEN [s EXCEPT !.ret = FALSE]
    ELSE [StateManager_set_camera_recording(
              [s EXCEPT !.sessions[f] = "idle"], f.cam, FALSE, NoFile)
          EXCEPT !.ret = TRUE]

StateManager_set_recording_error(s, f) ==
    IF s.sessions[f] = "none"
    THEN [s EXCEPT !.ret = FALSE]
    ELSE [StateManager_set_camera_recording(
              [s EXCEPT !.sessions[f] = "error"], f.cam, FALSE, NoFile)
          EXCEPT !.ret = TRUE]

\* the StateManager class defines no add_mqtt_event method
StateManager_has_add_mqtt_event == FALSE

\* ---------------------------------------------------------- StorageManager
\* register_recording_file: file_index["files"][file_id] = status recording
register_recording_file(s, f) ==
    [s EXCEPT !.index[f] = "recording"]

\* finalize_recording_file: a known entry becomes completed
finalize_recording_file(s, f) ==
    IF s.index[f] = "none" THEN s ELSE [s EXCEPT !.index[f] = "completed"]

\* -------------------------------------------------------------- event buses
\* Subscriptions made by the constructors in USDAVisionSystem.__init__: all
\* of them on the EventSystem instance created there.
InstanceSubscribers ==
    [machine_state_changed |->
         <<"CameraManager", "AutoRecordingManager">>,
     recording_started |-> <<"StorageManager">>,
     recording_stopped |-> <<"StorageManager">>,
     recording_error |-> <<>>]

\* Nothing subscribes to the module-global EventSystem of core.events.
GlobalSubscribers ==
    [machine_state_changed |-> <<>>,
     recording_started |-> <<>>,
     recording_stopped |-> <<>>,
     recording_error |-> <<>>]

Subscribed(subs, who) == \E i \in 1..Len(subs) : subs[i] = who

\* publish_recording_started: global bus history, then its subscribers
publish_recording_started(s, f) ==
    LET s1 == [s EXCEPT !.pubStarted[f] = @ + 1]
    IN  IF Subscribed(GlobalSubscribers.recording_started, "StorageManager")
        THEN register_recording_file(s1, f)
        ELSE s1

publish_recording_stopped(s, f) ==
    LET s1 == [s EXCEPT !.pubStopped[f] = @ + 1]
    IN  IF Subscribed(GlobalSubscribers.recording_stopped, "StorageManager")
        THEN finalize_recording_file(s1, f)
        ELSE s1

publish_recording_error(s, c) ==
    [s EXCEPT !.pubError[c] = @ + 1]

\* ----------------------------------------------------------- CameraRecorder
\* What the device and the file system do during one start_recording call:
\*   init_fail    CameraInit raises (device busy, not found): hCamera unset
\*   config_fail  a call after CameraInit raises: hCamera stays set
\*   mkdir_fail   creating the storage directory raises
\*   test_fail    the pre-flight grab of _test_camera_capture fails
\*   ok           the worker thread is started and still runs at return
\*   ok_exited    the worker thread is started and has already run
\*                _cleanup_recording when start_recording sets recording
StartOutcomes ==
    {"init_fail", "config_fail", "mkdir_fail", "test_fail", "ok",
     "ok_exited"}

\* _initialize_camera happens only when no handle is open
InitOutcomes == {"init_fail", "config_fail"}

CameraRecorder_start_recording(s0, c, f, outcome) ==
    LET s == [s0 EXCEPT !.starts = @ + 1]
    IN
    IF s.recording[c] THEN [s EXCEPT !.ret = FALSE]
    ELSE IF ~s.hCamera[c] /\ outcome = "init_fail"
    THEN [s EXCEPT !.ret = FALSE]
    ELSE IF ~s.hCamera[c] /\ outcome = "config_fail"
    THEN [s EXCEPT !.hCamera[c] = TRUE, !.ret = FALSE]
    ELSE IF outcome = "mkdir_fail"
    THEN [publish_recording_error([s EXCEPT !.hCamera[c] = TRUE], c)
          EXCEPT !.ret = FALSE]
    ELSE IF outcome = "test_fail"
    THEN [s EXCEPT !.hCamera[c] = TRUE, !.ret = FALSE]
    ELSE
        LET s1 == [s EXCEPT !.hCamera[c] = TRUE,
                            !.outFile[c] = f,
                            !.frames[c] = 0,
                            !.worker[c] =
                                IF outcome = "ok_exited" THEN "done"
                                ELSE "alive",
                            !.recording[c] = TRUE]
            s2 == StateManager_start_recording(s1, c, f)
            s3 == publish_recording_started(s2, f)
        IN  [s3 EXCEPT !.ret = TRUE]

\* _cleanup_camera: stop and uninit the device, forget the handle
CameraRecorder_cleanup_camera(s, c) ==
    [s EXCEPT !.hCamera[c] = FALSE]

\* stop_recording: the join returns within its timeout, the worker having
\* run _cleanup_recording
CameraRecorder_stop_recording(s, c) ==
    IF ~s.recording[c] THEN [s EXCEPT !.ret = FALSE]
    ELSE
        LET s1 == [s EXCEPT !.worker[c] = "done", !.recording[c] = FALSE]
            s2 == IF s1.outFile[c] # NoFile
                  THEN StateManager_stop_recording(s1, s1.outFile[c])
                  ELSE s1
            s3 == publish_recording_stopped(s2, s2.outFile[c])
            s4 == CameraRecorder_cleanup_camera(s3, c)
        IN  [s4 EXCEPT !.ret = TRUE]

\* _recording_loop leaving by itself (video writer cannot be opened, fatal
\* grab error, write failure): the finally clause runs _cleanup_recording
CameraRecorder_cleanup_recording(s, c) ==
    [s EXCEPT !.worker[c] = "done", !.recording[c] = FALSE]

\* ------------------------------------------------------------ CameraManager
\* manual_start_recording: settings, file name with the time stamp, start
CameraManager_manual_start_recording(s, c, name, outcome) ==
    LET kind == IF name = "none" THEN "manual" ELSE name
    IN  CameraRecorder_start_recording(s, c, MkFile(c, kind, s.clock),
                                       outcome)

CameraManager_manual_stop_recording(s, c) ==
    CameraRecorder_stop_recording(s, c)

\* reinitialize_failed_camera: the old recorder's device is closed and the
\* recorder is replaced by a new, idle one; a worker of the old recorder
\* keeps running on the old object only
CameraManager_reinitialize_failed_camera(s, c) ==
    [s EXCEPT !.hCamera[c] = FALSE, !.recording[c] = FALSE,
              !.worker[c] = "none", !.outFile[c] = NoFile, !.ret = TRUE]

\* _start_recording, the reaction of the camera manager to a machine on
CameraManager_start_recording(s, c, outcome) ==
    IF s.recording[c] THEN s
    ELSE CameraRecorder_start_recording(
             s, c, MkFile(c, "recording", s.clock), outcome)

\* _stop_recording, the reaction to off and error
CameraManager_stop_recording(s, c) ==
    IF ~s.recording[c] THEN s ELSE CameraRecorder_stop_recording(s, c)

\* the first configured camera whose machine_topic is the machine
CamerasOf(m) == {c \in Cameras : machine_topic(c) = m}

CameraManager_on_machine_state_changed(s, m, state, outcome) ==
    IF CamerasOf(m) = {} THEN s
    ELSE LET c == CHOOSE x \in CamerasOf(m) : TRUE
         IN  IF state = "on" THEN CameraManager_start_recording(s, c, outcome)
             ELSE IF state \in {"off", "error"}
             THEN CameraManager_stop_recording(s, c)
             ELSE s

\* ------------------------------------------------------ AutoRecordingManager
\* A retry_info dict: the camera, attempt_count, next_retry_time, max_retries
RetryInfo(c, n, t, mx) ==
    [cam |-> c, attempt_count |-> n, next_retry_time |-> t,
     max_retries |-> mx]

\* An element of cameras_to_retry: a reference to a retry_info dict.
\* inQueue: the dict is still the value of _retry_queue[cam];
\* cancelled: a machine off removed it from the queue after it was collected.
BatchItem(e) ==
    [cam |-> e.cam, attempt_count |-> e.attempt_count,
     max_retries |-> e.max_retries, inQueue |-> TRUE, cancelled |-> FALSE]

InQueue(q, c) == \E i \in 1..Len(q) : q[i].cam = c

\* del self._retry_queue[camera_name]
QueueDel(q, c) == SelectSeq(q, LAMBDA e : e.cam # c)

\* self._retry_queue[camera_name] = retry_info: a present key keeps its
\* place in the dict, a new key goes to the end
QueuePut(q, e) ==
    IF InQueue(q, e.cam)
    THEN [i \in 1..Len(q) |-> IF q[i].cam = e.cam THEN e ELSE q[i]]
    ELSE Append(q, e)

\* the dicts held by cameras_to_retry for camera c are no longer queued
Detach(b, c, byOff) ==
    [i \in 1..Len(b) |->
        IF b[i].cam = c
        THEN [b[i] EXCEPT !.inQueue = FALSE,
                          !.cancelled = (@ \/ (byOff /\ b[i].inQueue))]
        ELSE b[i]]

\* _start_recording_for_camera without the clearing of the failure counters
\* on success
AutoRecordingManager_start_recording_for_camera_noclear(s, c, outcome) ==
    LET s1 == CameraManager_manual_start_recording(s, c, "auto", outcome)
    IN  [s1 EXCEPT !.ctlLog[c] = Append(@, s1.ret)]

\* _start_recording_for_camera: start through the camera manager with the
\* generated file name; on success the failure counters are cleared
AutoRecordingManager_start_recording_for_camera(s, c, outcome) ==
    LET s1 == CameraManager_manual_start_recording(s, c, "auto", outcome)
        s2 == [s1 EXCEPT !.ctlLog[c] = Append(@, s1.ret)]
    IN  IF s2.ret
        THEN [s2 EXCEPT !.failCount[c] = 0, !.lastError[c] = FALSE]
        ELSE s2

\* _add_to_retry_queue: a fresh dict with attempt_count 0
AutoRecordingManager_add_to_retry_queue(s, c) ==
    [s EXCEPT !.queue = QueuePut(@, RetryInfo(c, 0, s.clock + RetryDelay,
                                              s.maxRetries[c])),
              !.batch = Detach(@, c, FALSE)]

AutoRecordingManager_handle_machine_on(s, c, outcome) ==
    IF s.camRec[c] THEN [s EXCEPT !.ctlLog[c] = <<>>]
    ELSE LET s1 == [s EXCEPT !.autoActive[c] = TRUE, !.ctlLog[c] = <<>>]
             s2 == AutoRecordingManager_start_recording_for_camera(
                       s1, c, outcome)
         IN  IF s2.ret THEN s2
             ELSE AutoRecordingManager_add_to_retry_queue(s2, c)

AutoRecordingManager_handle_machine_off(s, c) ==
    LET s1 == [s EXCEPT !.autoActive[c] = FALSE,
                        !.queue = QueueDel(@, c),
                        !.batch = Detach(@, c, TRUE)]
    IN  CameraManager_manual_stop_recording(s1, c)

\* _process_retry on one collected dict
AutoRecordingManager_process_retry(s, item, outcome) ==
    LET c == item.cam
        n == item.attempt_count + 1
        \* retry_info["attempt_count"] += 1, seen through the queue when
        \* the dict is still queued
        bump(q) == [i \in 1..Len(q) |->
                       IF q[i].cam = c /\ item.inQueue
                       THEN [q[i] EXCEPT !.attempt_count = n]
                       ELSE q[i]]
        s1 == [s EXCEPT !.queue = bump(@), !.failCount[c] = n]
        s2 == AutoRecordingManager_start_recording_for_camera(s1, c, outcome)
    IN  IF s2.ret
        THEN [s2 EXCEPT !.queue = QueueDel(@, c)]
        ELSE IF n >= item.max_retries
        THEN [s2 EXCEPT !.queue = QueueDel(@, c),
                        !.lastError[c] = TRUE,
                        !.autoActive[c] = FALSE]
        ELSE [s2 EXCEPT !.queue =
                 [i \in 1..Len(@) |->
                     IF @[i].cam = c /\ item.inQueue
                     THEN [@[i] EXCEPT !.next_retry_time =
                                           s.clock + RetryDelay]
                     ELSE @[i]]]

\* the strings the handlers compare the event's state with
OnStr == <<"o", "n">>
OffStr == <<"o", "f", "f">>
ErrorStr == <<"e", "r", "r", "o", "r">>

\* _get_cameras_for_machine, through its fixed machine_topic_map
AutoRecordingManager_cameras_for_machine(m) ==
    IF m \in {"vibratory_conveyor", "blower_separator"}
    THEN CamerasOf(m) ELSE {}

\* _on_machine_state_changed of the controller (one camera per machine in
\* the configuration)
AutoRecordingManager_on_machine_state_changed(s, m, state, outcome) ==
    LET cs == {c \in AutoRecordingManager_cameras_for_machine(m) :
                  s.autoEnabled[c]}
    IN  IF cs = {} THEN s
        ELSE LET c == CHOOSE x \in cs : TRUE
             IN  IF state = OnStr
                 THEN AutoRecordingManager_handle_machine_on(s, c, outcome)
                 ELSE IF state = OffStr
                 THEN AutoRecordingManager_handle_machine_off(s, c)
                 ELSE s

\* _notify_subscribers for a machine_state_changed event: the callbacks in
\* subscription order, each with what the device does on its start attempt
NotifyMachineStateChanged(s, subs, m, state, o1, o2) ==
    LET s1 == IF Subscribed(subs, "CameraManager")
              THEN CameraManager_on_machine_state_changed(
                       s, m, IF state = OnStr THEN "on"
                             ELSE IF state = OffStr THEN "off"
                             ELSE IF state = ErrorStr THEN "error"
                             ELSE "other", o1)
              ELSE s
    IN  IF Subscribed(subs, "AutoRecordingManager")
        THEN AutoRecordingManager_on_machine_state_changed(
                 s1, m, state, o2)
        ELSE s1

\* publish_machine_state_changed: always on the module-global bus
publish_machine_state_changed(s, m, state, o1, o2) ==
    NotifyMachineStateChanged(
        [s EXCEPT !.pubMachine[m] = @ + 1],
        GlobalSubscribers.machine_state_changed, m, state, o1, o2)

\* EventSystem.publish(MACHINE_STATE_CHANGED, ...) on the instance the
\* components were constructed with
EventSystem_publish_machine_state_changed(s, m, state, o1, o2) ==
    NotifyMachineStateChanged(
        [s EXCEPT !.instMachine[m] = @ + 1],
        InstanceSubscribers.machine_state_changed, m, state, o1, o2)

\* -------------------------------------------------------- MQTTMessageHandler
\* str.lower() on the characters the payloads use
UpperLetters ==
    <<"A", "B", "C", "D", "E", "F", "G", "H", "I", "J", "K", "L", "M", "N",
      "O", "P", "Q", "R", "S", "T", "U", "V", "W", "X", "Y", "Z">>
LowerLetters ==
    <<"a", "b", "c", "d", "e", "f", "g", "h", "i", "j", "k", "l", "m", "n",
      "o", "p", "q", "r", "s", "t", "u", "v", "w", "x", "y", "z">>

LowerChar(ch) ==
    IF \E i \in 1..26 : UpperLetters[i] = ch
    THEN LowerLetters[CHOOSE i \in 1..26 : UpperLetters[i] = ch]
    ELSE ch

Lower(str) == [i \in 1..Len(str) |-> LowerChar(str[i])]

\* str.strip()
Whitespace == {" ", "\t", "\n"}

RECURSIVE Strip(_)
Strip(str) ==
    IF str = <<>> THEN str
    ELSE IF Head(str) \in Whitespace THEN Strip(Tail(str))
    ELSE IF str[Len(str)] \in Whitespace
    THEN Strip(SubSeq(str, 1, Len(str) - 1))
    ELSE str

OnWords ==
    {<<"o", "n">>, <<"t", "r", "u", "e">>, <<"1">>,
     <<"s", "t", "a", "r", "t">>, <<"r", "u", "n", "n", "i", "n", "g">>,
     <<"a", "c", "t", "i", "v", "e">>}
OffWords ==
    {<<"o", "f", "f">>, <<"f", "a", "l", "s", "e">>, <<"0">>,
     <<"s", "t", "o", "p">>, <<"s", "t", "o", "p", "p", "e", "d">>,
     <<"i", "n", "a", "c", "t", "i", "v", "e">>}
ErrorWords ==
    {<<"e", "r", "r", "o", "r">>, <<"f", "a", "u", "l", "t">>,
     <<"a", "l", "a", "r", "m">>}

\* _normalize_payload without the strip()
normalize_payload_nostrip(payload) ==
    LET p == Lower(payload)
    IN  IF p \in OnWords THEN OnStr
        ELSE IF p \in OffWords THEN OffStr
        ELSE IF p \in ErrorWords THEN ErrorStr
        ELSE p

normalize_payload(payload) ==
    LET p == Strip(Lower(payload))
    IN  IF p \in OnWords THEN OnStr
        ELSE IF p \in OffWords THEN OffStr
        ELSE IF p \in ErrorWords THEN ErrorStr
        ELSE p

\* the MachineState value a normalized payload names, if any
StateName(str) ==
    IF str = OnStr THEN "on"
    ELSE IF str = OffStr THEN "off"
    ELSE IF str = ErrorStr THEN "error"
    ELSE IF str = <<"u", "n", "k", "n", "o", "w", "n">> THEN "unknown"
    ELSE "raw"

\* handle_message: count, normalize, update the machine, record the bus
\* event, publish on a change; any exception is counted and swallowed
handle_message(s, m, payload, o1, o2) ==
    LET norm == normalize_payload(payload)
        s1 == [s EXCEPT !.msgCount = @ + 1]
        s2 == StateManager_update_machine_state(s1, m, StateName(norm))
    IN  IF ~StateManager_has_add_mqtt_event
        THEN [s2 EXCEPT !.errCount = @ + 1]
        ELSE IF s2.ret
        THEN publish_machine_state_changed(s2, m, norm, o1, o2)
        ELSE s2

\* payloads the broker delivers
Payloads ==
    {<<"O", "N", " ">>, <<"o", "f", "f">>, <<"1">>, <<"i", "d", "l", "e">>}

\* ------------------------------------------------------------------ actions
OutcomeFits(s, c, o) == s.hCamera[c] => o \notin InitOutcomes

\* the controller's start attempts so far
CtlAttempts(s) ==
    LET RECURSIVE Sum(_)
        Sum(S) == IF S = {} THEN 0
                  ELSE LET c == CHOOSE x \in S : TRUE
                       IN  Len(s.ctlLog[c]) + Sum(S \ {c})
    IN  Sum(Cameras)

Observe(s0, s1, op, c) ==
    [NoHist EXCEPT !.op = op, !.cam = c, !.at = s0.clock,
                   !.file = s0.camFile[c],
                   !.wasRec = (s0.camRec[c] /\ s0.recording[c]),
                   !.ok = s1.ret,
                   !.errors = s1.pubError[c] - s0.pubError[c]]

\* time passes
Tick ==
    /\ clock < MaxClock
    /\ clock' = clock + 1
    /\ UNCHANGED <<machines, camRec, camFile, sessions, autoActive,
                   failCount, lastError, recording, hCamera, worker, outFile,
                   pubStarted, pubStopped, pubError, pubMachine, instMachine,
                   index, queue, batch, maxRetries, autoEnabled, msgCount,
                   errCount, starts, settings, frames, ctlLog, hist>>
    /\ UNCHANGED extraVars

\* MQTTClient._on_message for a message on the topic of machine m
MqttMessage ==
    \E m \in topic_to_machine, payload \in Payloads :
    \E o1, o2 \in StartOutcomes :
        /\ msgCount < MaxMsgs
        /\ LET c == CHOOSE x \in CamerasOf(m) : TRUE
               s1 == handle_message(St, m, payload, o1, o2)
               h == [Observe(St, s1, "message", c) EXCEPT
                        !.from = machines[m],
                        !.to = s1.machines[m],
                        !.differs =
                            (StateName(normalize_payload(payload))
                                 # machines[m]),
                        !.delivered =
                            (s1.instMachine[m] - instMachine[m])
                            + (IF GlobalSubscribers.machine_state_changed
                                      = <<>>
                               THEN 0
                               ELSE s1.pubMachine[m] - pubMachine[m]),
                        !.ctlStarts = CtlAttempts(s1) - CtlAttempts(St)]
           IN  /\ (s1.starts = starts)
                     => (o1 = "ok" /\ o2 = "ok")
               /\ Assign([s1 EXCEPT !.hist = h])

\* POST /cameras/{name}/start-recording
ApiStartRecording ==
    \E c \in Cameras, name \in {"none", "clip"}, o \in StartOutcomes :
        /\ starts < MaxStarts
        /\ OutcomeFits(St, c, o)
        /\ recording[c] => o = "ok"
        /\ LET s1 == CameraManager_manual_start_recording(St, c, name, o)
               h == [Observe(St, s1, "start", c) EXCEPT !.outcome = o]
           IN  Assign([s1 EXCEPT !.hist = h])

\* POST /cameras/{name}/stop-recording
ApiStopRecording ==
    \E c \in Cameras :
        /\ LET s1 == CameraManager_manual_stop_recording(St, c)
           IN  Assign([s1 EXCEPT !.hist = Observe(St, s1, "stop", c)])

\* POST /cameras/{name}/reinitialize
ApiReinitialize ==
    \E c \in Cameras :
        /\ hCamera[c] \/ recording[c] \/ worker[c] # "none"
               \/ outFile[c] # NoFile
        /\ LET s1 == CameraManager_reinitialize_failed_camera(St, c)
           IN  Assign([s1 EXCEPT !.hist = Observe(St, s1, "reinit", c)])

\* the capture worker of the camera's recorder ends by itself
WorkerExit ==
    \E c \in Cameras :
        /\ worker[c] = "alive"
        /\ LET s1 == CameraRecorder_cleanup_recording(St, c)
           IN  Assign([s1 EXCEPT !.hist = Observe(St, s1, "worker_exit", c)])

\* configured values of the default configuration
DefaultMaxRetries == 3

\* MQTTClient.max_reconnect_attempts
max_reconnect_attempts == 10

\* the bus client after start(): running, its loop thread about to make
\* its first iteration
InitMqtt ==
    /\ running = TRUE
    /\ connected = FALSE
    /\ reconnect_attempts = 0
    /\ loopPc = "top"
    /\ link = "none"
    /\ subscribed = {}
    /\ failedAttempts = 0
    /\ missed = FALSE

\* threads that publish events of one type, and the callbacks of that type
Threads == {"t1", "t2"}
Callbacks == {"cb1", "cb2"}

\* a thread outside publish
IdleThread ==
    [pc |-> "idle", ev |-> 0, snap |-> <<>>, todo |-> <<>>, raised |-> {}]

\* EventSystem.__init__
InitBus ==
    /\ event_history = <<>>
    /\ subscribers = <<>>
    /\ publisher = [t \in Threads |-> IdleThread]
    /\ received = [cb \in Callbacks |-> <<>>]

\* the index as _load_file_index returns it when there is no usable file
EmptyIndex == [f \in Files |-> "none"]

\* StorageManager.__init__ on a storage directory without an index file
InitIndex ==
    /\ disk = [state |-> "absent", data |-> EmptyIndex]
    /\ savePc = "idle"
    /\ prevDisk = [state |-> "absent", data |-> EmptyIndex]
    /\ crashed = FALSE
    /\ indexOps = 0

\* no index operation has run yet
NoReport ==
    [op |-> "none", ok |-> FALSE, count |-> 0, errors |-> {},
     cutoff |-> 0, again |-> FALSE]

\* the storage directory before StorageManager.__init__ has run
InitStore ==
    /\ fsFiles = {}
    /\ loaded = FALSE
    /\ report = NoReport
    /\ storeOps = 0

\* no caller has read from the State Store yet
InitState ==
    /\ refs = {}
    /\ lockHeld = FALSE
    /\ lastStep = "none"
    /\ stateOps = 0

\* no streaming call has been made yet
NoStreamCall == [op |-> "none", cam |-> "none", ok |-> FALSE, locks |-> {}]

\* CameraStreamer.__init__ for every camera
InitStream ==
    /\ streaming = [c \in Cameras |-> FALSE]
    /\ sCamera = [c \in Cameras |-> FALSE]
    /\ streamThread = [c \in Cameras |-> "none"]
    /\ streamLast = NoStreamCall
    /\ streamOps = 0

\* the loop has handled no frame yet
NoFrame ==
    [frame |-> 0, full |-> FALSE, done |-> FALSE, stored |-> FALSE,
     discarded |-> 0]

\* the ring of a streamer whose loop has just been started
InitRing ==
    /\ frame_queue = <<>>
    /\ streamPc = "grab"
    /\ pending = 0
    /\ frameNo = 0
    /\ loopLog = NoFrame

\* the system after start(): every component started, the API served
InitDown ==
    /\ stopPc = "up"
    /\ stopped = <<>>
    /\ serving = TRUE

\* the cameras of the configuration file, as camera_index_map knows them
ConfiguredCameras == {"camera1", "camera2"}

\* before CameraManager.__init__ has enumerated the devices
InitDisc ==
    /\ available_cameras = 0
    /\ enabled = [c \in ConfiguredCameras |-> TRUE]
    /\ camStatus = [c \in ConfiguredCameras |-> "none"]
    /\ camera_recorders = {}
    /\ discLast = [op |-> "none", cams |-> {}]
    /\ discOps = 0

\* no request has reached the start-recording route yet
NoRequest == [cam |-> "none", name |-> "none", ok |-> FALSE, written |-> NoFile]
NoResponse == [success |-> FALSE, filename |-> NoFile]

InitRoute ==
    /\ apiPc = "idle"
    /\ request = NoRequest
    /\ response = NoResponse

\* StateManager.__init__, and no connection event published yet
InitMirror ==
    /\ mqtt_connected = FALSE
    /\ announced = "none"

\* the thread that runs the recording event callbacks and the thread of
\* the control plane
StoreThreads == {"events", "control"}

\* a thread outside the StorageManager
Outside == [op |-> "none", pc |-> "idle", keys |-> {}, cutoff |-> 0]

InitGuard == storePc = [t \in StoreThreads |-> Outside]

\* A recording is named by its output path, <storage_path of the camera>/
\* <filename>; manual_start_recording makes the filename from the time
\* stamp and the supplied name ("clip"), or from the camera's name and
\* the time stamp when none is supplied ("manual").
Paths == [cam : ConfiguredCameras, kind : {"clip", "manual"},
          ts : 0..MaxClock]

\* os.path.basename of an output path: the directory, which is what tells
\* the cameras' storage paths apart, is dropped
basename(p) ==
    [cam |-> IF p.kind = "manual" THEN p.cam ELSE "none",
     kind |-> p.kind, ts |-> p.ts]

FileIds == {basename(p) : p \in Paths}

\* no entry under a file_id
NoEntry == [camera_name |-> "none", filename |-> NoFile, status |-> "none"]

\* StorageManager.__init__ without an index file
InitKeyed == file_index = [id \in FileIds |-> NoEntry]

\* the RLocks: CameraManager._lock, CameraRecorder._lock,
\* AutoRecordingManager._retry_lock, the _lock of the EventSystem instance
\* and of the module-global EventSystem, StateManager._lock
Locks == {"manager", "recorder", "retry", "bus", "gbus", "state"}

\* the thread that delivers machine events, the retry scheduler, a
\* control-plane request, the main thread and a capture worker
LockThreads == {"events", "retry", "api", "main", "worker"}

\* all locks free, every thread outside the components
InitLocks ==
    /\ lockOwner = [l \in Locks |-> "none"]
    /\ lockDepth = [l \in Locks |-> 0]
    /\ todo = [t \in LockThreads |-> <<>>]
    /\ shutdownStarted = FALSE

\* _normalize_payload has not been called
NotCalled == <<"?">>

InitNorm ==
    /\ payloadIn = <<>>
    /\ normalized = NotCalled

InitBase ==
    /\ clock = 0
    /\ machines = [m \in Machines |-> "unknown"]
    /\ camRec = [c \in Cameras |-> FALSE]
    /\ camFile = [c \in Cameras |-> NoFile]
    /\ sessions = [f \in Files |-> "none"]
    /\ autoActive = [c \in Cameras |-> FALSE]
    /\ failCount = [c \in Cameras |-> 0]
    /\ lastError = [c \in Cameras |-> FALSE]
    /\ recording = [c \in Cameras |-> FALSE]
    /\ hCamera = [c \in Cameras |-> FALSE]
    /\ worker = [c \in Cameras |-> "none"]
    /\ outFile = [c \in Cameras |-> NoFile]
    /\ pubStarted = [f \in Files |-> 0]
    /\ pubStopped = [f \in Files |-> 0]
    /\ pubError = [c \in Cameras |-> 0]
    /\ pubMachine = [m \in Machines |-> 0]
    /\ instMachine = [m \in Machines |-> 0]
    /\ index = [f \in Files |-> "none"]
    /\ queue = <<>>
    /\ batch = <<>>
    /\ msgCount = 0
    /\ errCount = 0
    /\ starts = 0
    /\ settings = [c \in Cameras |-> "configured"]
    /\ frames = [c \in Cameras |-> 0]
    /\ ctlLog = [c \in Cameras |-> <<>>]
    /\ hist = NoHist
    /\ InitMqtt
    /\ InitBus
    /\ InitIndex
    /\ InitStore
    /\ InitState
    /\ InitStream
    /\ InitRing
    /\ InitDown
    /\ InitDisc
    /\ InitRoute
    /\ InitMirror
    /\ InitGuard
    /\ lastEvent = [m \in Machines |-> "none"]
    /\ InitKeyed
    /\ InitLocks

\* the controller started with the default system configuration
InitSwitch ==
    /\ sysAutoEnabled = TRUE
    /\ autoStarted = TRUE
    /\ autoRunning = TRUE

InitCommon == InitBase /\ InitNorm /\ InitSwitch

\* the system as USDAVisionSystem assembles and starts it
Init ==
    /\ InitCommon
    /\ maxRetries = [c \in Cameras |-> DefaultMaxRetries]
    /\ autoEnabled \in [Cameras -> BOOLEAN]

Next ==
    \/ Tick
    \/ MqttMessage
    \/ ApiStartRecording
    \/ ApiStopRecording
    \/ ApiReinitialize
    \/ WorkerExit

Spec == Init /\ [][Next]_vars

\* ------------------------------------------------------------------- claims
\* the sessions of camera c that are in state recording
RecordingSessions(c) ==
    {f \in Files : f.cam = c /\ sessions[f] = "recording"}

\* C1: for every camera, in every reachable state, the state store's
\* is_recording flag is true if and only if exactly one session of that
\* camera is in state recording.
C1_IsRecordingIffOneSession ==
    \A c \in Cameras :
        camRec[c] <=> (Cardinality(RecordingSessions(c)) = 1)

\* C2: at most one session per camera is in state recording at any time.
C2_AtMostOneRecordingSession ==
    \A c \in Cameras : Cardinality(RecordingSessions(c)) <= 1

\* the last operation was a bus message that took the machine of hist.cam
\* from state a to state b, and more than one scheduler tick has passed
\* since with nothing else happening
MessageSettled(a, b) ==
    /\ hist.op = "message"
    /\ hist.from = a
    /\ hist.to = b
    /\ clock > hist.at + 1

\* C3: for every off -> on transition of a machine whose mapped camera has
\* auto-recording enabled and is not already recording, the auto-record
\* controller issues at least one start_recording attempt for that camera
\* within one scheduler tick of the bus message being handled.
C3_AutoStartAttempted ==
    (/\ MessageSettled("off", "on")
     /\ autoEnabled[hist.cam]
     /\ ~hist.wasRec
     /\ hist.file = NoFile)
        => hist.ctlStarts >= 1

\* C4: for every on -> off transition of a machine whose mapped camera is
\* recording, the recorder of that camera returns to idle (recorder not
\* recording, camera is_recording false, session no longer in state
\* recording) and recording_stopped is published exactly once for that
\* session.
C4_OffStopsRecording ==
    (MessageSettled("on", "off") /\ hist.wasRec)
        => /\ ~recording[hist.cam]
           /\ ~camRec[hist.cam]
           /\ sessions[hist.file] # "recording"
           /\ pubStopped[hist.file] = 1

\* C5: for every bus message on a configured topic whose normalized state
\* differs from the last observed state of its machine exactly one
\* machine_state_changed event is published to the subscribers, and none
\* is published when the normalized state does not differ.
C5_OneEventPerChange ==
    hist.op = "message"
        => hist.delivered = (IF hist.differs THEN 1 ELSE 0)

\* C9: every recording that a recorder starts successfully gets a storage
\* index entry with status recording, and when that recording is stopped
\* its entry is finalized to status completed; no started recording is
\* missing from the index.
C9_StartedRecordingIndexed ==
    \A f \in Files :
        /\ pubStarted[f] > 0 => index[f] # "none"
        /\ sessions[f] = "recording" => index[f] = "recording"
        /\ sessions[f] = "idle" => index[f] = "completed"

\* C10: if opening or configuring the device or the pre-flight grab fails
\* during start, start returns failure, the recorder stays idle, no session
\* is registered in the state store, no capture worker is started, and a
\* recording_error event is published.
C10_FailedStartAbortsCleanly ==
    (/\ hist.op = "start"
     /\ hist.outcome \in {"init_fail", "config_fail", "test_fail"})
        => /\ ~hist.ok
           /\ ~recording[hist.cam]
           /\ worker[hist.cam] # "alive"
           /\ camFile[hist.cam] = hist.file
           /\ hist.errors >= 1

\* ------------------------------------- the controller driven through its bus
\* EventSystem.publish(MACHINE_STATE_CHANGED, ...) on the bus instance the
\* camera manager and the controller subscribed to
MachinePublish(m, state, o1, o2) ==
        /\ instMachine[m] < MaxEvents
        /\ starts < MaxCtlStarts
        /\ LET c == CHOOSE x \in CamerasOf(m) : TRUE
               sa == NotifyMachineStateChanged(
                         St, <<"CameraManager">>, m, state, o1, o2)
               s1 == EventSystem_publish_machine_state_changed(
                         St, m, state, o1, o2)
               h == [Observe(St, s1, "event", c) EXCEPT
                        !.to = StateName(state),
                        !.delivered = s1.instMachine[m] - instMachine[m],
                        !.ctlStarts = CtlAttempts(s1) - CtlAttempts(St)]
           IN  /\ OutcomeFits(St, c, o1)
               /\ OutcomeFits(sa, c, o2)
               /\ (sa.starts = starts) => o1 = "ok"
               /\ (s1.starts = sa.starts) => o2 = "ok"
               /\ AssignCore([s1 EXCEPT !.hist = h])

MachineEvent ==
    \E m \in Machines, state \in {OnStr, OffStr, ErrorStr} :
    \E o1, o2 \in StartOutcomes :
        /\ MachinePublish(m, state, o1, o2)
        /\ UNCHANGED extraVars

\* _retry_loop, first half of an iteration: collect the due entries
RetryScan ==
    /\ batch = <<>>
    /\ \E i \in 1..Len(queue) : clock >= queue[i].next_retry_time
    /\ batch' = [i \in 1..Len(SelectSeq(queue,
                      LAMBDA e : clock >= e.next_retry_time)) |->
                    BatchItem(SelectSeq(queue,
                      LAMBDA e : clock >= e.next_retry_time)[i])]
    /\ hist' = [NoHist EXCEPT !.op = "scan", !.at = clock]
    /\ UNCHANGED <<clock, machines, camRec, camFile, sessions, autoActive,
                   failCount, lastError, recording, hCamera, worker, outFile,
                   pubStarted, pubStopped, pubError, pubMachine, instMachine,
                   index, queue, maxRetries, autoEnabled, msgCount,
                   errCount, starts, settings, frames, ctlLog>>
    /\ UNCHANGED extraVars

\* _retry_loop, second half: _process_retry on the next collected entry
RetryProcess ==
    \E o \in StartOutcomes :
        /\ batch # <<>>
        /\ starts < MaxCtlStarts
        /\ LET item == Head(batch)
               c == item.cam
               s0 == [St EXCEPT !.batch = Tail(@)]
               s1 == AutoRecordingManager_process_retry(s0, item, o)
               h == [Observe(St, s1, "retry", c) EXCEPT
                        !.outcome = o,
                        !.ok = (Len(s1.ctlLog[c]) > 0
                                /\ s1.ctlLog[c][Len(s1.ctlLog[c])]),
                        !.ctlStarts = CtlAttempts(s1) - CtlAttempts(St),
                        !.stale = item.cancelled]
           IN  /\ OutcomeFits(St, c, o)
               /\ recording[c] => o = "ok"
               /\ Assign([s1 EXCEPT !.hist = h])

\* the controller and the camera manager on one bus instance, with any
\* configured retry limit
InitCtl ==
    /\ InitCommon
    /\ maxRetries \in [Cameras -> 0..MaxRetriesCfg]
    /\ autoEnabled \in [Cameras -> BOOLEAN]

NextCtl ==
    \/ Tick
    \/ MachineEvent
    \/ RetryScan
    \/ RetryProcess
    \/ WorkerExit

SpecCtl == InitCtl /\ [][NextCtl]_vars

\* C6: once the controller has finished handling an off event for a machine,
\* no start attempt is made for the mapped camera on behalf of a retry entry
\* created before that off.
C6_OffCancelsRetries ==
    ~(hist.op = "retry" /\ hist.stale /\ hist.ctlStarts > 0)

\* the start attempts the scheduler made for camera c after the controller's
\* last initial attempt
RetriesMade(c) == IF ctlLog[c] = <<>> THEN 0 ELSE Len(ctlLog[c]) - 1

\* the last operation was a retry that failed with its attempts used up
Exhausted ==
    /\ hist.op = "retry"
    /\ ~hist.ok
    /\ failCount[hist.cam] >= maxRetries[hist.cam]

\* C7: after a failed initial auto-start the scheduler makes at most
\* max_retries further start attempts for that camera, for every
\* max_retries >= 0; when attempts are exhausted the camera's entry is
\* removed from the retry queue, auto_recording_last_error is set,
\* auto_recording_active becomes false, and the entry is never attempted
\* again.
C7_RetriesBounded ==
    /\ \A c \in Cameras : RetriesMade(c) <= maxRetries[c]
    /\ Exhausted => /\ ~InQueue(queue, hist.cam)
                    /\ ~InQueue(batch, hist.cam)
                    /\ lastError[hist.cam]
                    /\ ~autoActive[hist.cam]

\* the controller's initial attempt and first retry for camera c failed and
\* its second retry, the last operation, succeeded, with max_retries = 3
ThirdAttemptSucceeded(c) ==
    /\ hist.op = "retry"
    /\ hist.cam = c
    /\ maxRetries[c] = 3
    /\ ctlLog[c] = <<FALSE, FALSE, TRUE>>

\* C8: when after a machine on event the first two start attempts for a
\* camera fail and the third succeeds (max_retries = 3), the camera ends up
\* recording and its auto_recording_failure_count equals 2 at the moment of
\* success.
C8_FailureCountTwoAtSuccess ==
    \A c \in Cameras :
        ThirdAttemptSucceeded(c)
            => /\ recording[c]
               /\ camRec[c]
               /\ failCount[c] = 2

\* C8 as amended: in that case the camera ends up recording (recorder and
\* state store, with the session of its current file in state recording)
\* and its auto_recording_failure_count is 0 once the successful attempt
\* has returned, because a successful start clears the failure counter.
C8_FailureCountClearedAtSuccess ==
    \A c \in Cameras :
        ThirdAttemptSucceeded(c)
            => /\ recording[c]
               /\ camRec[c]
               /\ camFile[c] # NoFile
               /\ sessions[camFile[c]] = "recording"
               /\ failCount[c] = 0
               /\ ~lastError[c]

\* C8 witness: the third attempt has just succeeded after two failures
C8_Witness ==
    \E c \in Cameras :
        ThirdAttemptSucceeded(c) /\ recording[c] /\ failCount[c] = 0

\* ----------------------------------------- the recorder through the API
\* update_camera_settings: refused without a device handle, otherwise the
\* device and the camera's config take the requested values
CameraRecorder_update_camera_settings(s, c) ==
    IF ~s.hCamera[c] THEN [s EXCEPT !.ret = FALSE]
    ELSE [s EXCEPT !.settings[c] = "requested", !.ret = TRUE]

\* manual_start_recording with exposure_ms, gain or fps in the request
CameraManager_manual_start_recording_settings(s, c, name, outcome) ==
    CameraManager_manual_start_recording(
        CameraRecorder_update_camera_settings(s, c), c, name, outcome)

\* what _initialize_camera does during full_reset
ResetOutcomes == {"init_fail", "config_fail", "ok"}

\* full_reset: stop a running recording, close the device, open it again
CameraRecorder_full_reset(s, c, outcome) ==
    LET s1 == IF s.recording[c] THEN CameraRecorder_stop_recording(s, c)
              ELSE s
        s2 == CameraRecorder_cleanup_camera(s1, c)
    IN  [s2 EXCEPT !.hCamera[c] = (outcome # "init_fail"),
                   !.ret = (outcome = "ok")]

CameraManager_full_reset_camera(s, c, outcome) ==
    CameraRecorder_full_reset(s, c, outcome)

\* POST /cameras/{name}/start-recording with camera settings in the body
ApiStartRecordingSettings ==
    \E c \in Cameras, name \in {"none", "clip"}, o \in StartOutcomes :
        /\ starts < MaxStarts
        /\ OutcomeFits(St, c, o)
        /\ recording[c] => o = "ok"
        /\ LET s1 == CameraManager_manual_start_recording_settings(
                         St, c, name, o)
               h == [Observe(St, s1, "start_settings", c) EXCEPT
                        !.outcome = o]
           IN  Assign([s1 EXCEPT !.hist = h])

\* POST /cameras/{name}/full-reset
ApiFullReset ==
    \E c \in Cameras, o \in ResetOutcomes :
        /\ c \in DOMAIN hCamera
        /\ LET s1 == CameraManager_full_reset_camera(St, c, o)
               h == [Observe(St, s1, "full_reset", c) EXCEPT !.outcome = o]
           IN  Assign([s1 EXCEPT !.hist = h])

\* one iteration of the capture loop that grabs and writes a frame
WorkerFrame ==
    \E c \in Cameras :
        /\ worker[c] = "alive"
        /\ frames[c] < MaxFrames
        /\ LET s1 == [St EXCEPT !.frames[c] = @ + 1]
           IN  Assign([s1 EXCEPT !.hist = Observe(St, s1, "frame", c)])

\* one iteration of the capture loop whose grab times out: continue
GrabTimeout ==
    \E c \in Cameras :
        /\ worker[c] = "alive"
        /\ Assign([St EXCEPT !.hist = Observe(St, St, "grab_timeout", c)])

NextRec ==
    \/ Tick
    \/ ApiStartRecording
    \/ ApiStartRecordingSettings
    \/ ApiStopRecording
    \/ ApiReinitialize
    \/ ApiFullReset
    \/ WorkerExit
    \/ WorkerFrame
    \/ GrabTimeout

\* the recorder of a camera driven through the API, with its capture worker
SpecRec == Init /\ [][NextRec]_vars

\* everything the program holds, without the clock and the observations
progVars ==
    <<machines, camRec, camFile, sessions, autoActive, failCount, lastError,
      recording, hCamera, worker, outFile, pubStarted, pubStopped, pubError,
      pubMachine, instMachine, index, queue, batch, maxRetries, autoEnabled,
      msgCount, errCount, settings, frames>>

\* C11: in every reachable state a recorder that is not recording holds no
\* open device session (its camera handle is empty), also after a failed
\* start, after the capture worker ended on a fatal error and after the
\* recovery operations.
C11_IdleHoldsNoDevice ==
    \A c \in Cameras : ~recording[c] => ~hCamera[c]

\* C12: on a fatal grab or write failure in the capture loop the worker
\* ends, the session moves to state error in the state store with the
\* camera's is_recording cleared, a recording_error event is published and
\* the device is torn down; a grab timeout leaves the session running.
C12_FatalGrabEndsInError ==
    /\ (hist.op = "worker_exit" /\ hist.wasRec)
           => /\ worker[hist.cam] = "done"
              /\ sessions[hist.file] = "error"
              /\ ~camRec[hist.cam]
              /\ hist.errors >= 1
              /\ ~hCamera[hist.cam]
    /\ (hist.op = "grab_timeout" /\ hist.wasRec)
           => /\ worker[hist.cam] = "alive"
              /\ recording[hist.cam]
              /\ sessions[hist.file] = "recording"

\* C13: a second stop_recording request on a camera after a clean stop
\* changes no state, publishes no event and returns success.
C13_SecondStopIsNoOpSuccess ==
    [][(/\ hist.op = "stop" /\ hist.ok
        /\ hist'.op = "stop" /\ hist' # hist /\ hist'.cam = hist.cam)
           => (hist'.ok /\ UNCHANGED progVars)]_vars

\* C14: a start request, with or without camera settings, on a camera that
\* is already recording is rejected and leaves the running session
\* unchanged: same output file, same session record, same frame counter
\* and same camera settings.
C14_RejectedStartChangesNothing ==
    [][\A c \in Cameras :
        (/\ recording[c]
         /\ hist'.op \in {"start", "start_settings"}
         /\ hist'.cam = c
         /\ hist' # hist)
            => /\ ~hist'.ok
               /\ recording'[c]
               /\ outFile'[c] = outFile[c]
               /\ camFile'[c] = camFile[c]
               /\ sessions' = sessions
               /\ frames'[c] = frames[c]
               /\ settings'[c] = settings[c]]_vars

\* C15: a machine on event never starts a recording on a camera whose
\* auto_start_recording_enabled is false: for such a camera the reaction
\* to on is a no-op (no start call, no device opened, no session, no
\* recording_started).
C15_NoStartWhenAutoDisabled ==
    [][(/\ hist'.op = "event" /\ hist'.to = "on" /\ hist' # hist
        /\ ~autoEnabled[hist'.cam])
           => /\ starts' = starts
              /\ recording' = recording
              /\ hCamera' = hCamera
              /\ sessions' = sessions
              /\ camRec' = camRec
              /\ pubStarted' = pubStarted]_vars

\* ------------------------------------------------------------ the bus client
\* What the network does on the connect call of _connect: it raises, or the
\* CONNECT packet is sent (the answer is read by a later client.loop call)
ConnectOutcomes == {"raise", "sent"}

\* _subscribe_to_topics: nothing without a client or while not connected,
\* otherwise one subscribe call per configured topic
MQTTClient_subscribe_to_topics(hasClient, conn, subs) ==
    IF ~hasClient \/ ~conn THEN subs ELSE topic_to_machine

counted(n) == IF n < max_reconnect_attempts THEN n + 1 ELSE n

\* _run_loop from the loop condition to the call of client.loop
MqttLoopTop ==
    /\ loopPc = "top"
    /\ UNCHANGED <<coreVars, missed, busVars, indexVars, addVars>>
    /\ IF ~running
       THEN /\ loopPc' = "ended"
            /\ UNCHANGED <<running, connected, reconnect_attempts, link,
                           subscribed, failedAttempts>>
       ELSE IF connected
       THEN /\ loopPc' = "process"
            /\ UNCHANGED <<running, connected, reconnect_attempts, link,
                           subscribed, failedAttempts>>
       ELSE \E o \in ConnectOutcomes :
            IF o = "sent"
            THEN \* _connect returned True
                 /\ reconnect_attempts' = 0
                 /\ link' = "sent"
                 /\ subscribed' =
                        MQTTClient_subscribe_to_topics(TRUE, connected, {})
                 /\ loopPc' = "process"
                 /\ UNCHANGED <<running, connected, failedAttempts>>
            ELSE \* _connect returned False
                 /\ reconnect_attempts' = reconnect_attempts + 1
                 /\ failedAttempts' = counted(failedAttempts)
                 /\ link' = "none"
                 /\ subscribed' = {}
                 /\ IF reconnect_attempts + 1 >= max_reconnect_attempts
                    THEN loopPc' = "ended" /\ running' = FALSE
                    ELSE loopPc' = "top" /\ UNCHANGED running
                 /\ UNCHANGED connected

\* what one client.loop call finds on the network
LoopEvents ==
    {"idle", "connack_ok", "connack_refused", "message", "disconnect",
     "raise"}

\* _run_loop: client.loop with the callbacks it runs, the wait after it and
\* the except clause
MqttLoopProcess ==
    \E ev \in LoopEvents :
        /\ loopPc = "process"
        /\ ev \in {"connack_ok", "connack_refused"} => link = "sent"
        /\ ev = "message" => link = "up"
        /\ loopPc' = IF running THEN "top" ELSE "ended"
        /\ UNCHANGED <<running, reconnect_attempts, subscribed, busVars,
                       indexVars, oldAddVars, restOfMirror>>
        /\ CASE ev = "idle" ->
                  UNCHANGED <<coreVars, connected, link, failedAttempts,
                              missed, mirrorVars>>
             [] ev = "connack_ok" ->
                  \* _on_connect with rc = 0: the flag, the State Store,
                  \* the MQTT_CONNECTED event
                  /\ connected' = TRUE
                  /\ mqtt_connected' = TRUE
                  /\ announced' = "connected"
                  /\ link' = "up"
                  /\ failedAttempts' = 0
                  /\ UNCHANGED <<coreVars, missed>>
             [] ev = "connack_refused" ->
                  \* _on_connect with rc # 0
                  /\ connected' = FALSE
                  /\ link' = "down"
                  /\ failedAttempts' = counted(failedAttempts)
                  /\ UNCHANGED <<coreVars, missed, mirrorVars>>
             [] ev = "message" ->
                  \* a message published on a configured topic: the
                  \* broker sends it to a subscribed client only
                  \E m \in topic_to_machine, payload \in Payloads :
                      /\ UNCHANGED <<connected, link, failedAttempts,
                                     mirrorVars>>
                      /\ IF m \in subscribed
                         THEN /\ msgCount < MaxMsgs
                              /\ AssignCore(handle_message(
                                     St, m, payload, "ok", "ok"))
                              /\ UNCHANGED missed
                         ELSE /\ missed' = TRUE
                              /\ UNCHANGED coreVars
             [] ev = "disconnect" ->
                  \* _on_disconnect: the flag, the State Store, the
                  \* MQTT_DISCONNECTED event
                  /\ connected' = FALSE
                  /\ mqtt_connected' = FALSE
                  /\ announced' = "disconnected"
                  /\ link' = "down"
                  /\ UNCHANGED <<coreVars, failedAttempts, missed>>
             [] ev = "raise" ->
                  \* except clause of _run_loop
                  /\ connected' = FALSE
                  /\ link' = "down"
                  /\ failedAttempts' =
                         IF connected THEN failedAttempts
                         ELSE counted(failedAttempts)
                  /\ UNCHANGED <<coreVars, missed, mirrorVars>>

\* stop()
MqttStop ==
    /\ running
    /\ running' = FALSE
    /\ UNCHANGED <<coreVars, connected, reconnect_attempts, loopPc, link,
                   subscribed, failedAttempts, missed, busVars, indexVars, addVars>>

NextMqtt ==
    \/ MqttLoopTop
    \/ MqttLoopProcess
    \/ MqttStop

\* the bus client's loop thread against the broker
SpecMqtt == Init /\ [][NextMqtt]_vars

\* C16: each time the client has become connected, all configured machine
\* topics are subscribed before any further loop iteration processes
\* messages, so that no message published on a configured topic after the
\* connection is missed.
C16_SubscribedAfterConnect ==
    /\ (connected /\ loopPc = "top") => subscribed = topic_to_machine
    /\ ~missed

\* C17: if the broker never grants a connection (the connect call raises,
\* the broker answers with a refusal code, or the loop raises while
\* disconnected), the client loop has ended with running = false once
\* max_reconnect_attempts consecutive attempts have failed.
C17_ReconnectBounded ==
    failedAttempts >= max_reconnect_attempts
        => (loopPc = "ended" /\ ~running)

\* ------------------------------------------------ EventSystem under threads
InSeq(q, x) == \E i \in 1..Len(q) : q[i] = x

\* how often x occurs in q
Count(q, x) == Cardinality({i \in 1..Len(q) : q[i] = x})

\* subscribe: a callback is appended unless it is in the list already
EventSystem_subscribe(subs, cb) ==
    IF InSeq(subs, cb) THEN subs ELSE Append(subs, cb)

\* unsubscribe: list.remove, nothing when the callback is not in the list
EventSystem_unsubscribe(subs, cb) == SelectSeq(subs, LAMBDA x : x # cb)

\* _notify_subscribers, one pass of the for loop without the try/except:
\* an exception of the callback leaves the loop and publish
EventSystem_notify_callback_nocatch(th, raises) ==
    IF raises
    THEN [th EXCEPT !.todo = <<>>, !.raised = @ \cup {Head(th.todo)},
                    !.pc = "failed"]
    ELSE [th EXCEPT !.todo = Tail(@),
                    !.pc = IF Tail(th.todo) = <<>> THEN "returned"
                           ELSE "notifying"]

\* _notify_subscribers, one pass of the for loop: the callback is called
\* and an exception it raises is logged
EventSystem_notify_callback(th, raises) ==
    [th EXCEPT !.todo = Tail(@),
               !.raised = IF raises THEN @ \cup {Head(th.todo)} ELSE @,
               !.pc = IF Tail(th.todo) = <<>> THEN "returned"
                      ELSE "notifying"]

BusSubscribe ==
    \E cb \in Callbacks :
        /\ ~InSeq(subscribers, cb)
        /\ subscribers' = EventSystem_subscribe(subscribers, cb)
        /\ UNCHANGED <<coreVars, mqttVars, indexVars, addVars, event_history,
                       publisher, received>>

BusUnsubscribe ==
    \E cb \in Callbacks :
        /\ InSeq(subscribers, cb)
        /\ subscribers' = EventSystem_unsubscribe(subscribers, cb)
        /\ UNCHANGED <<coreVars, mqttVars, indexVars, addVars, event_history,
                       publisher, received>>

\* publish, first half: the event is appended to the history under the lock
BusPublish ==
    \E t \in Threads :
        /\ publisher[t].pc \in {"idle", "returned"}
        /\ Len(event_history) < MaxBusEvents
        /\ event_history' = Append(event_history, Len(event_history) + 1)
        /\ publisher' = [publisher EXCEPT ![t] =
               [IdleThread EXCEPT !.pc = "appended",
                                  !.ev = Len(event_history) + 1]]
        /\ UNCHANGED <<coreVars, mqttVars, indexVars, addVars, subscribers, received>>

\* _notify_subscribers: the subscriber list is copied under the lock
BusSnapshot ==
    \E t \in Threads :
        /\ publisher[t].pc = "appended"
        /\ publisher' = [publisher EXCEPT ![t] =
               [@ EXCEPT !.snap = subscribers, !.todo = subscribers,
                         !.pc = IF subscribers = <<>> THEN "returned"
                                ELSE "notifying"]]
        /\ UNCHANGED <<coreVars, mqttVars, indexVars, addVars, event_history,
                       subscribers, received>>

\* _notify_subscribers: the next callback of the copy is called, outside
\* the lock; it returns or raises
BusDeliver ==
    \E t \in Threads, raises \in BOOLEAN :
        /\ publisher[t].pc = "notifying"
        /\ received' = [received EXCEPT ![Head(publisher[t].todo)] =
                            Append(@, publisher[t].ev)]
        /\ publisher' = [publisher EXCEPT ![t] =
                            EventSystem_notify_callback(@, raises)]
        /\ UNCHANGED <<coreVars, mqttVars, indexVars, addVars, event_history,
                       subscribers>>

NextBus ==
    \/ BusSubscribe
    \/ BusUnsubscribe
    \/ BusPublish
    \/ BusSnapshot
    \/ BusDeliver

\* one event bus, its subscribers and the threads publishing on it
SpecBus == Init /\ [][NextBus]_vars

\* C18: events of one type are delivered to every subscriber in publish
\* order, the order in which they were appended to the event history, also
\* when several threads publish concurrently.
C18_DeliveredInPublishOrder ==
    \A cb \in Callbacks :
        \A i, j \in 1..Len(received[cb]) :
            i < j => received[cb][i] < received[cb][j]

\* C19: when a subscriber callback raises while an event is delivered,
\* every other subscriber of that event type still receives the event
\* exactly once and publish returns normally to the publisher.
C19_ExceptionIsolation ==
    /\ \A t \in Threads :
        /\ publisher[t].pc # "failed"
        /\ publisher[t].pc = "returned"
               => \A i \in 1..Len(publisher[t].snap) :
                      Count(received[publisher[t].snap[i]],
                            publisher[t].ev) = 1
    /\ \A cb \in Callbacks, e \in 1..Len(event_history) :
           Count(received[cb], e) <= 1

\* C19 witness: a publish has returned although the first callback of its
\* subscriber list raised, and the callback after it got the event once
C19_Witness ==
    \E t \in Threads :
        /\ publisher[t].pc = "returned"
        /\ Len(publisher[t].snap) = 2
        /\ publisher[t].snap[1] \in publisher[t].raised
        /\ publisher[t].snap[2] \notin publisher[t].raised
        /\ Count(received[publisher[t].snap[2]], publisher[t].ev) = 1

\* ------------------------------------------------ the recording index file
\* _load_file_index: the parsed file, or an empty index when the file is
\* missing or json.load raises
StorageManager_load_file_index(d) ==
    IF d.state = "complete" THEN d.data ELSE EmptyIndex

\* the file right after open(path, "w"), and while json.dump is writing
Truncated == [state |-> "empty", data |-> EmptyIndex]
PartlyWritten == [state |-> "partial", data |-> EmptyIndex]

\* register_recording_file up to the open call of _save_file_index
IndexRegister ==
    \E f \in Files :
        /\ ~crashed /\ savePc = "idle"
        /\ indexOps < MaxIndexOps
        /\ AssignCore(register_recording_file(St, f))
        /\ prevDisk' = disk
        /\ disk' = Truncated
        /\ savePc' = "opened"
        /\ indexOps' = indexOps + 1
        /\ UNCHANGED <<mqttVars, busVars, addVars, crashed>>

\* finalize_recording_file of a known id, up to the open call of
\* _save_file_index
IndexFinalize ==
    \E f \in Files :
        /\ ~crashed /\ savePc = "idle"
        /\ indexOps < MaxIndexOps
        /\ index[f] # "none"
        /\ AssignCore(finalize_recording_file(St, f))
        /\ prevDisk' = disk
        /\ disk' = Truncated
        /\ savePc' = "opened"
        /\ indexOps' = indexOps + 1
        /\ UNCHANGED <<mqttVars, busVars, addVars, crashed>>

\* _save_file_index: json.dump has written a part of the document
IndexSaveWrite ==
    /\ ~crashed /\ savePc = "opened"
    /\ disk' = PartlyWritten
    /\ savePc' = "writing"
    /\ UNCHANGED <<coreVars, mqttVars, busVars, addVars, prevDisk, crashed, indexOps>>

\* _save_file_index: the document is written and the file closed
IndexSaveClose ==
    /\ ~crashed /\ savePc = "writing"
    /\ disk' = [state |-> "complete", data |-> index]
    /\ savePc' = "idle"
    /\ UNCHANGED <<coreVars, mqttVars, busVars, addVars, prevDisk, crashed, indexOps>>

\* the process dies
IndexCrash ==
    /\ ~crashed
    /\ crashed' = TRUE
    /\ savePc' = "idle"
    /\ UNCHANGED <<coreVars, mqttVars, busVars, addVars, disk, prevDisk, indexOps>>

\* the process is started again: StorageManager.__init__ loads the index
IndexRestart ==
    /\ crashed
    /\ AssignCore([St EXCEPT !.index = StorageManager_load_file_index(disk)])
    /\ crashed' = FALSE
    /\ prevDisk' = disk
    /\ UNCHANGED <<mqttVars, busVars, addVars, disk, savePc, indexOps>>

NextIndex ==
    \/ IndexRegister
    \/ IndexFinalize
    \/ IndexSaveWrite
    \/ IndexSaveClose
    \/ IndexCrash
    \/ IndexRestart

\* the storage manager's index under mutations, crashes and restarts
SpecIndex == Init /\ [][NextIndex]_vars

\* C20: if the process crashes at any point during a save of the recording
\* index, the index file found on disk afterwards is either the complete
\* previous index or the complete new index, never an empty or partial one.
C20_IndexWriteAtomic ==
    crashed => \/ disk = prevDisk
               \/ (disk.state = "complete" /\ disk.data = index)

\* ------------------------------------------- maintenance of the index
\* bounds of the storage specification
MaxStoreTs == 1
MaxStoreOps == 2

\* the recordings the storage directory may hold
StoreFiles == {f \in Files : f.kind = "auto" /\ f.ts <= MaxStoreTs}

\* file_info["start_time"]: event.timestamp of recording_started, the
\* instant the recording's filename was made
start_time(f) == f.ts

\* what the with-block of _save_file_index can do: write the document, or
\* raise in open (file untouched), or raise in json.dump (file cut short)
SaveOutcomes == {"ok", "open_raises", "dump_raises"}

\* _save_file_index: the exception of a failed write is logged, not raised
StorageManager_save_file_index(idx, d, outcome) ==
    CASE outcome = "ok" -> [state |-> "complete", data |-> idx]
      [] outcome = "open_raises" -> d
      [] OTHER -> PartlyWritten

\* cleanup_old_files without the test of the entry's status
StorageManager_cleanup_old_files_anystatus(idx, fs, cutoff, failing) ==
    LET files_to_remove ==
            {f \in Files : idx[f] # "none" /\ start_time(f) < cutoff}
        removed == {f \in files_to_remove : ~(f \in fs /\ f \in failing)}
    IN  [index |-> [f \in Files |-> IF f \in removed THEN "none" ELSE idx[f]],
         fs |-> fs \ removed,
         files_removed |-> Cardinality(removed),
         errors |-> files_to_remove \ removed]

\* cleanup_old_files, the in-memory part: the entries chosen, the entries
\* and files removed (an entry whose os.remove raises stays), the counters
StorageManager_cleanup_old_files(idx, fs, cutoff, failing) ==
    LET files_to_remove ==
            {f \in Files : idx[f] = "completed" /\ start_time(f) < cutoff}
        removed == {f \in files_to_remove : ~(f \in fs /\ f \in failing)}
    IN  [index |-> [f \in Files |-> IF f \in removed THEN "none" ELSE idx[f]],
         fs |-> fs \ removed,
         files_removed |-> Cardinality(removed),
         errors |-> files_to_remove \ removed]

\* verify_storage_integrity without the del of the entries it counts
StorageManager_verify_storage_integrity_nodel(idx, fs) ==
    LET missing_files == {f \in Files : idx[f] # "none" /\ f \notin fs}
    IN  [index |-> idx,
         fixed_issues |-> Cardinality(missing_files)]

\* verify_storage_integrity, the in-memory part: entries whose file does
\* not exist are deleted and counted
StorageManager_verify_storage_integrity(idx, fs) ==
    LET missing_files == {f \in Files : idx[f] # "none" /\ f \notin fs}
    IN  [index |-> [f \in Files |->
                        IF f \in missing_files THEN "none" ELSE idx[f]],
         fixed_issues |-> Cardinality(missing_files)]

\* StorageManager.__init__ on a directory left by earlier runs: the index
\* file is loaded, whatever recordings are there are there
StoreLoad ==
    /\ ~loaded
    /\ \E idx \in [StoreFiles -> {"none", "recording", "completed"}],
          fs \in SUBSET StoreFiles :
        LET full == [f \in Files |->
                         IF f \in StoreFiles THEN idx[f] ELSE "none"]
            d == [state |-> "complete", data |-> full]
        IN  /\ AssignCore([St EXCEPT
                   !.index = StorageManager_load_file_index(d)])
            /\ disk' = d
            /\ prevDisk' = d
            /\ fsFiles' = fs
    /\ loaded' = TRUE
    /\ UNCHANGED <<mqttVars, busVars, restOfStore, savePc, crashed, indexOps, report,
                   storeOps>>

\* the outcomes to consider for an operation: those of the save when
\* the operation saves, none to choose otherwise
Saves(saving) == IF saving THEN SaveOutcomes ELSE {"ok"}

\* register_recording_file: returns the file id also when the save failed
StoreRegister ==
    \E f \in StoreFiles, o \in SaveOutcomes :
        /\ loaded /\ storeOps < MaxStoreOps
        /\ LET s1 == register_recording_file(St, f)
           IN  /\ AssignCore(s1)
               /\ disk' = StorageManager_save_file_index(s1.index, disk, o)
        /\ report' = [NoReport EXCEPT !.op = "register", !.ok = TRUE]
        /\ storeOps' = storeOps + 1
        /\ UNCHANGED <<mqttVars, busVars, restOfStore, savePc, prevDisk, crashed,
                       indexOps, fsFiles, loaded>>

\* finalize_recording_file: False for an unknown id, else True
StoreFinalize ==
    \E f \in StoreFiles :
        \E o \in Saves(index[f] # "none") :
            /\ loaded /\ storeOps < MaxStoreOps
            /\ LET s1 == finalize_recording_file(St, f)
               IN  /\ AssignCore(s1)
                   /\ disk' = IF index[f] = "none" THEN disk
                              ELSE StorageManager_save_file_index(
                                       s1.index, disk, o)
            /\ report' = [NoReport EXCEPT !.op = "finalize",
                                          !.ok = (index[f] # "none")]
            /\ storeOps' = storeOps + 1
            /\ UNCHANGED <<mqttVars, busVars, restOfStore, savePc, prevDisk, crashed,
                           indexOps, fsFiles, loaded>>

\* delete_file: False for an unknown id or when os.remove raises
StoreDelete ==
    \E f \in StoreFiles :
        \E removeRaises \in IF f \in fsFiles THEN BOOLEAN ELSE {FALSE} :
            LET done == index[f] # "none" /\ ~removeRaises
                idx == IF done THEN [index EXCEPT ![f] = "none"] ELSE index
            IN  \E o \in Saves(done) :
                    /\ loaded /\ storeOps < MaxStoreOps
                    /\ AssignCore([St EXCEPT !.index = idx])
                    /\ fsFiles' = IF done THEN fsFiles \ {f} ELSE fsFiles
                    /\ disk' = IF done
                               THEN StorageManager_save_file_index(
                                        idx, disk, o)
                               ELSE disk
                    /\ report' = [NoReport EXCEPT
                                     !.op = "delete", !.ok = done]
                    /\ storeOps' = storeOps + 1
                    /\ UNCHANGED <<mqttVars, busVars, restOfStore, savePc, prevDisk,
                                   crashed, indexOps, loaded>>

\* cleanup_old_files with a cutoff of now - max_age_days; failing are the
\* files whose os.remove raises; the index is saved when an entry was
\* removed
StoreCleanup ==
    \E cutoff \in 0..(MaxStoreTs + 1) :
        \E failing \in SUBSET {f \in fsFiles : index[f] = "completed"
                                               /\ start_time(f) < cutoff} :
            LET r == StorageManager_cleanup_old_files(
                         index, fsFiles, cutoff, failing)
            IN  \E o \in Saves(r.files_removed > 0) :
                    /\ loaded /\ storeOps < MaxStoreOps
                    /\ AssignCore([St EXCEPT !.index = r.index])
                    /\ fsFiles' = r.fs
                    /\ disk' = IF r.files_removed > 0
                               THEN StorageManager_save_file_index(
                                        r.index, disk, o)
                               ELSE disk
                    /\ report' = [NoReport EXCEPT
                                     !.op = "cleanup",
                                     !.ok = (r.errors = {}),
                                     !.count = r.files_removed,
                                     !.errors = r.errors,
                                     !.cutoff = cutoff]
                    /\ storeOps' = storeOps + 1
                    /\ UNCHANGED <<mqttVars, busVars, restOfStore, savePc, prevDisk,
                                   crashed, indexOps, loaded>>

\* verify_storage_integrity; the index is saved when an entry was removed
StoreVerify ==
    LET r == StorageManager_verify_storage_integrity(index, fsFiles)
    IN  \E o \in Saves(r.fixed_issues > 0) :
            /\ loaded /\ storeOps < MaxStoreOps
            /\ AssignCore([St EXCEPT !.index = r.index])
            /\ disk' = IF r.fixed_issues > 0
                       THEN StorageManager_save_file_index(
                                r.index, disk, o)
                       ELSE disk
            /\ report' = [NoReport EXCEPT
                             !.op = "verify", !.ok = TRUE,
                             !.count = r.fixed_issues,
                             !.again = (report.op = "verify"
                                        /\ report.count > 0)]
            /\ storeOps' = storeOps + 1
            /\ UNCHANGED <<mqttVars, busVars, restOfStore, savePc, prevDisk, crashed,
                           indexOps, fsFiles, loaded>>

\* somebody outside the program deletes a recording file
StoreFileLost ==
    \E f \in fsFiles :
        /\ loaded /\ storeOps < MaxStoreOps
        /\ fsFiles' = fsFiles \ {f}
        /\ report' = [NoReport EXCEPT !.op = "lost"]
        /\ UNCHANGED <<coreVars, mqttVars, busVars, restOfStore, indexVars,
                       loaded,
                       storeOps>>

NextStore ==
    \/ StoreLoad
    \/ StoreRegister
    \/ StoreFinalize
    \/ StoreDelete
    \/ StoreCleanup
    \/ StoreVerify
    \/ StoreFileLost

\* the assembled system with every camera's auto-recording enabled
InitStoreSpec ==
    /\ InitCommon
    /\ maxRetries = [c \in Cameras |-> DefaultMaxRetries]
    /\ autoEnabled = [c \in Cameras |-> TRUE]

\* the storage manager's index under its maintenance operations
SpecStore == InitStoreSpec /\ [][NextStore]_vars

\* C21: after every index mutation that reports success (register,
\* finalize, delete, cleanup, verify_integrity), the index persisted on
\* disk equals the in-memory index.
C21_DiskEqualsMemoryAfterSuccess ==
    (report.op \in {"register", "finalize", "delete", "cleanup", "verify"}
     /\ report.ok)
        => /\ disk.state = "complete"
           /\ StorageManager_load_file_index(disk) = index

\* C22: after verify_integrity returns, no index entry references a file
\* that is missing on disk, and running verify_integrity a second time on
\* an unchanged filesystem reports fixed_issues = 0 and changes nothing.
C22_VerifyIdempotent ==
    /\ [](report.op = "verify"
              => \A f \in Files : index[f] # "none" => f \in fsFiles)
    /\ [][(report.op = "verify" /\ report'.op = "verify"
           /\ storeOps' = storeOps + 1)
              => /\ report'.count = 0
                 /\ UNCHANGED <<index, disk, fsFiles>>]_vars

\* C22 witness: verify_integrity has run twice in a row, the first run
\* removed an entry, the second found nothing to fix
C22_Witness ==
    report.op = "verify" /\ report.again /\ report.count = 0

\* the entries cleanup_old_files is to remove at the given cutoff
OldCompleted(cutoff) ==
    {f \in Files : index[f] = "completed" /\ start_time(f) < cutoff}

\* a step of cleanup_old_files
CleanupStep == report'.op = "cleanup" /\ storeOps' = storeOps + 1

\* the entries and the files that a step removes
EntriesRemoved == {f \in Files : index[f] # "none" /\ index'[f] = "none"}
FilesRemoved == fsFiles \ fsFiles'

\* C23 as stated: cleanup removes exactly the index entries (and their
\* files) whose start is older than the cutoff and whose status is
\* completed, and files_removed equals the number of entries removed.
C23_RemovesExactlyOldCompleted ==
    [][CleanupStep
          => /\ EntriesRemoved = OldCompleted(report'.cutoff)
             /\ FilesRemoved = OldCompleted(report'.cutoff) \cap fsFiles
             /\ report'.count = Cardinality(EntriesRemoved)]_vars

\* C23, amended: cleanup removes only index entries (and their files)
\* whose start is older than the cutoff and whose status is completed; an
\* entry with status recording or a start at or after the cutoff keeps
\* its entry, its status and its file; every old completed entry is
\* removed except those whose file could not be deleted, which stay and
\* are reported as errors; files_removed equals the number of entries
\* removed.
C23_RemovesOnlyOldCompleted ==
    [][CleanupStep
          => /\ EntriesRemoved \subseteq OldCompleted(report'.cutoff)
             /\ FilesRemoved \subseteq EntriesRemoved
             /\ \A f \in Files \ EntriesRemoved : index'[f] = index[f]
             /\ OldCompleted(report'.cutoff) \ EntriesRemoved
                    = report'.errors
             /\ report'.errors \subseteq fsFiles'
             /\ report'.count = Cardinality(EntriesRemoved)]_vars

\* C23 witness: a cleanup has removed an old completed entry and left the
\* entry and the file of a recording that is still being written
C23_Witness ==
    /\ report.op = "cleanup" /\ report.count > 0
    /\ \E f \in StoreFiles : index[f] = "recording" /\ f \in fsFiles
                             /\ start_time(f) < report.cutoff

\* ------------------------------------------------ callers of the State Store
MaxStateOps == 3

\* the recording ids used with the State Store
StateFiles == {f \in Files : f.kind \in {"manual", "auto"} /\ f.ts = 0}

\* what reads of the store return for a camera: the CameraInfo object with
\* the attributes the controller attaches to it
CameraRecord(c) ==
    [is_recording |-> camRec[c], current_recording_file |-> camFile[c],
     auto_recording_active |-> autoActive[c]]

\* everything reads of the store return
StoreRecords ==
    <<[c \in Cameras |-> CameraRecord(c)], machines, sessions>>

\* get_camera_status / get_all_cameras: under the lock, the CameraInfo
\* object of the store itself is handed out (get_all_cameras copies the
\* dict, not the objects in it)
StateGetCameraStatus ==
    \E c \in Cameras :
        /\ stateOps < MaxStateOps
        /\ refs' = refs \cup {c}
        /\ lockHeld' = TRUE
        /\ lastStep' = "get"
        /\ stateOps' = stateOps + 1
        /\ UNCHANGED <<coreVars, mqttVars, busVars, indexVars, restOfState>>

\* a caller assigns an attribute of the object it got, as
\* _handle_machine_on and _handle_machine_off do with
\* auto_recording_active; the object is the store's, no lock is taken
StateCallerWrite ==
    \E c \in refs, v \in BOOLEAN :
        /\ stateOps < MaxStateOps
        /\ AssignCore([St EXCEPT !.autoActive[c] = v])
        /\ lockHeld' = FALSE
        /\ lastStep' = "caller"
        /\ stateOps' = stateOps + 1
        /\ UNCHANGED <<mqttVars, busVars, indexVars, restOfState, refs>>

\* set_camera_recording(name, recording, filename = None)
StateSetCameraRecording ==
    \E c \in Cameras, rec \in BOOLEAN, f \in StateFiles \cup {NoFile} :
        /\ stateOps < MaxStateOps
        /\ AssignCore(StateManager_set_camera_recording(St, c, rec, f))
        /\ lockHeld' = TRUE
        /\ lastStep' = "set_camera_recording"
        /\ stateOps' = stateOps + 1
        /\ UNCHANGED <<mqttVars, busVars, indexVars, restOfState, refs>>

\* start_recording(camera_name, filename)
StateStartRecording ==
    \E f \in StateFiles :
        /\ stateOps < MaxStateOps
        /\ AssignCore(StateManager_start_recording(St, f.cam, f))
        /\ lockHeld' = TRUE
        /\ lastStep' = "start_recording"
        /\ stateOps' = stateOps + 1
        /\ UNCHANGED <<mqttVars, busVars, indexVars, restOfState, refs>>

\* stop_recording(recording_id)
StateStopRecording ==
    \E f \in StateFiles :
        /\ stateOps < MaxStateOps
        /\ AssignCore(StateManager_stop_recording(St, f))
        /\ lockHeld' = TRUE
        /\ lastStep' = "stop_recording"
        /\ stateOps' = stateOps + 1
        /\ UNCHANGED <<mqttVars, busVars, indexVars, restOfState, refs>>

\* set_recording_error(recording_id, error_message)
StateSetRecordingError ==
    \E f \in StateFiles :
        /\ stateOps < MaxStateOps
        /\ AssignCore(StateManager_set_recording_error(St, f))
        /\ lockHeld' = TRUE
        /\ lastStep' = "set_recording_error"
        /\ stateOps' = stateOps + 1
        /\ UNCHANGED <<mqttVars, busVars, indexVars, restOfState, refs>>

NextState ==
    \/ StateGetCameraStatus
    \/ StateCallerWrite
    \/ StateSetCameraRecording
    \/ StateStartRecording
    \/ StateStopRecording
    \/ StateSetRecordingError

\* the State Store and its callers
SpecState == Init /\ [][NextState]_vars

\* C24: reads of the State Store return immutable snapshots: mutating an
\* object obtained from get_camera_status, get_all_cameras,
\* get_machine_state or get_recording never changes what later reads of
\* the store return, and every change of a store record happens while the
\* store's mutex is held.
C24_ReadsReturnSnapshots ==
    /\ [][lastStep' = "caller" /\ stateOps' = stateOps + 1
              => StoreRecords' = StoreRecords]_vars
    /\ [][StoreRecords' # StoreRecords => lockHeld']_vars

\* C25: after any sequence of State Store operations (set_camera_recording,
\* start, stop or error of a session), a camera's is_recording is true if
\* and only if its current recording filename is set.
C25_RecordingIffFilename ==
    \A c \in Cameras : camRec[c] <=> camFile[c] # NoFile

\* ------------------------------------------------------ preview streaming
MaxStreamOps == 2

\* how mvsdk.CameraInit can answer the streamer
StreamInitOutcomes == {"ok", "init_raises"}

\* the streamers as one record, next to the program state s
Streamers ==
    [streaming |-> streaming, sCamera |-> sCamera,
     streamThread |-> streamThread]

\* CameraStreamer.start_streaming: under the streamer's own lock; a second
\* call is a no-op; _initialize_camera opens a handle of the streamer's
\* own or fails and cleans up; then the loop thread is started
CameraStreamer_start_streaming(s, v, c, outcome) ==
    IF v.streaming[c]
    THEN [core |-> s, str |-> v, ret |-> TRUE, locks |-> {"streamer"}]
    ELSE IF outcome = "ok"
    THEN [core |-> s,
          str |-> [v EXCEPT !.sCamera[c] = TRUE,
                            !.streamThread[c] = "alive",
                            !.streaming[c] = TRUE],
          ret |-> TRUE, locks |-> {"streamer"}]
    ELSE [core |-> s, str |-> [v EXCEPT !.sCamera[c] = FALSE],
          ret |-> FALSE, locks |-> {"streamer"}]

\* a streamer that stops by closing the handle of the camera's recorder
CameraStreamer_stop_streaming_shared(s, v, c) ==
    IF ~v.streaming[c]
    THEN [core |-> s, str |-> v, ret |-> TRUE, locks |-> {"streamer"}]
    ELSE [core |-> CameraRecorder_cleanup_camera(s, c),
          str |-> [v EXCEPT !.sCamera[c] = FALSE,
                            !.streamThread[c] = "none",
                            !.streaming[c] = FALSE],
          ret |-> TRUE, locks |-> {"streamer"}]

\* CameraStreamer.stop_streaming: under the streamer's own lock; the loop
\* is told to stop and joined, the streamer's handle is closed
CameraStreamer_stop_streaming(s, v, c) ==
    IF ~v.streaming[c]
    THEN [core |-> s, str |-> v, ret |-> TRUE, locks |-> {"streamer"}]
    ELSE [core |-> s,
          str |-> [v EXCEPT !.sCamera[c] = FALSE,
                            !.streamThread[c] = "none",
                            !.streaming[c] = FALSE],
          ret |-> TRUE, locks |-> {"streamer"}]

\* the outcome of a streaming call becomes the state
AssignStream(r, op, c) ==
    /\ AssignCore(r.core)
    /\ streaming' = r.str.streaming
    /\ sCamera' = r.str.sCamera
    /\ streamThread' = r.str.streamThread
    /\ streamLast' = [op |-> op, cam |-> c, ok |-> r.ret, locks |-> r.locks]
    /\ streamOps' = streamOps + 1
    /\ UNCHANGED <<mqttVars, busVars, indexVars, restOfStream>>

\* CameraManager.start_camera_streaming
StreamStart ==
    \E c \in Cameras, o \in StreamInitOutcomes :
        /\ streamOps < MaxStreamOps
        /\ AssignStream(CameraStreamer_start_streaming(St, Streamers, c, o),
                        "start", c)

\* CameraManager.stop_camera_streaming
StreamStop ==
    \E c \in Cameras :
        /\ streamOps < MaxStreamOps
        /\ AssignStream(CameraStreamer_stop_streaming(St, Streamers, c),
                        "stop", c)

NextStream ==
    \/ ApiStartRecording
    \/ ApiStopRecording
    \/ WorkerExit
    \/ StreamStart
    \/ StreamStop

\* the recorders and the streamers of the cameras, both driven by the API
SpecStream == Init /\ [][NextStream]_vars

\* what belongs to a camera's recorder and its sessions
recorderVars ==
    <<recording, hCamera, worker, outFile, settings, frames, camRec,
      camFile, sessions>>

\* C26: streaming is independent of recording: starting or stopping a
\* camera's preview stream, whether it succeeds or is refused by the
\* device, never changes that camera's recorder state, its is_recording
\* flag or its session records, and never waits on the recorder's lock.
C26_StreamingLeavesRecorder ==
    [][streamOps' = streamOps + 1
          => /\ UNCHANGED recorderVars
             /\ "recorder" \notin streamLast'.locks]_vars

\* C26 witness: a preview stream was started on a camera whose recorder
\* is recording; both hold a handle and the recorder is still recording
C26_Witness ==
    \E c \in Cameras :
        /\ recording[c] /\ camRec[c] /\ hCamera[c]
        /\ streamLast.op = "start" /\ streamLast.cam = c /\ streamLast.ok
        /\ streaming[c] /\ sCamera[c]

\* ---------------------------------------------------- the preview frame ring
MaxRingFrames == 6

\* queue.Queue(maxsize=5)
maxsize == 5

\* _streaming_loop: a frame is grabbed and converted, then put_nowait; a
\* full queue raises queue.Full with the frame in hand
LoopGrab ==
    /\ streamPc = "grab" /\ frameNo < MaxRingFrames
    /\ frameNo' = frameNo + 1
    /\ IF Len(frame_queue) < maxsize
       THEN /\ frame_queue' = Append(frame_queue, frameNo + 1)
            /\ loopLog' = [NoFrame EXCEPT !.frame = frameNo + 1,
                                          !.done = TRUE, !.stored = TRUE]
            /\ UNCHANGED <<streamPc, pending>>
       ELSE /\ streamPc' = "full"
            /\ pending' = frameNo + 1
            /\ loopLog' = [NoFrame EXCEPT !.frame = frameNo + 1,
                                          !.full = TRUE]
            /\ UNCHANGED frame_queue
    /\ UNCHANGED <<coreVars, mqttVars, busVars, indexVars, restOfRing>>

\* the handler of queue.Full: get_nowait takes the oldest frame out; on
\* queue.Empty the handler passes and the frame in hand is dropped
LoopMakeRoom ==
    /\ streamPc = "full"
    /\ IF frame_queue = <<>>
       THEN /\ streamPc' = "grab"
            /\ pending' = 0
            /\ loopLog' = [loopLog EXCEPT !.done = TRUE]
            /\ UNCHANGED frame_queue
       ELSE /\ streamPc' = "reput"
            /\ frame_queue' = Tail(frame_queue)
            /\ loopLog' = [loopLog EXCEPT !.discarded = Head(frame_queue)]
            /\ UNCHANGED pending
    /\ UNCHANGED <<coreVars, mqttVars, busVars, indexVars, restOfRing,
                   frameNo>>

\* the handler's second put_nowait; a queue.Full here leaves the handler
\* and is logged by the loop
LoopReput ==
    /\ streamPc = "reput"
    /\ IF Len(frame_queue) < maxsize
       THEN /\ frame_queue' = Append(frame_queue, pending)
            /\ loopLog' = [loopLog EXCEPT !.done = TRUE, !.stored = TRUE]
       ELSE /\ loopLog' = [loopLog EXCEPT !.done = TRUE]
            /\ UNCHANGED frame_queue
    /\ streamPc' = "grab"
    /\ pending' = 0
    /\ UNCHANGED <<coreVars, mqttVars, busVars, indexVars, restOfRing,
                   frameNo>>

\* get_latest_frame of a stream reader: get_nowait takes the oldest frame
RingRead ==
    /\ frame_queue # <<>>
    /\ frame_queue' = Tail(frame_queue)
    /\ UNCHANGED <<coreVars, mqttVars, busVars, indexVars, restOfRing,
                   streamPc, pending, frameNo, loopLog>>

NextRing ==
    \/ LoopGrab
    \/ LoopMakeRoom
    \/ LoopReput
    \/ RingRead

\* a streamer's loop and the readers of its ring
SpecRing == Init /\ [][NextRing]_vars

\* C27: the preview frame ring never holds more than 5 frames, and
\* whenever the streaming loop produces a frame while the ring is full,
\* the oldest frame is discarded and the new frame is stored, also when
\* stream readers dequeue frames concurrently.
C27_RingKeepsNewest ==
    /\ Len(frame_queue) <= maxsize
    /\ (loopLog.full /\ loopLog.done)
           => (loopLog.stored /\ loopLog.discarded # 0)

\* ------------------------------------------------------- system shutdown
\* CameraManager.stop: every recorder that is recording is stopped, every
\* recorder cleaned up (its handle closed)
CameraManager_stop(s) ==
    LET RECURSIVE StopAll(_, _)
        StopAll(t, S) ==
            IF S = {} THEN t
            ELSE LET c == CHOOSE x \in S : TRUE
                     t1 == IF t.recording[c]
                           THEN CameraRecorder_stop_recording(t, c)
                           ELSE t
                 IN  StopAll(CameraRecorder_cleanup_camera(t1, c), S \ {c})
    IN  StopAll(s, Cameras)

\* USDAVisionSystem.stop up to the first component: running is cleared
DownBegin ==
    /\ stopPc = "up"
    /\ stopPc' = "api_server"
    /\ UNCHANGED <<coreVars, mqttVars, busVars, indexVars, restOfDown,
                   streamVars, stopped, serving>>

\* api_server.stop(): the running flag is cleared; uvicorn cannot be
\* stopped from another thread and goes on serving
DownApi ==
    /\ stopPc = "api_server"
    /\ stopPc' = "auto_recording_manager"
    /\ stopped' = Append(stopped, "api_server")
    /\ UNCHANGED <<coreVars, mqttVars, busVars, indexVars, restOfDown,
                   streamVars, serving>>

\* auto_recording_manager.stop(): the retry thread is told to stop and
\* joined
DownAuto ==
    /\ stopPc = "auto_recording_manager"
    /\ stopPc' = "camera_manager"
    /\ stopped' = Append(stopped, "auto_recording_manager")
    /\ UNCHANGED <<coreVars, mqttVars, busVars, indexVars, restOfDown,
                   streamVars, serving>>

\* camera_manager.stop(): recordings and streams that are active at this
\* moment are stopped
DownCameras ==
    /\ stopPc = "camera_manager"
    /\ stopPc' = "mqtt_client"
    /\ stopped' = Append(stopped, "camera_manager")
    /\ AssignCore(CameraManager_stop(St))
    /\ streaming' = [c \in Cameras |-> FALSE]
    /\ sCamera' = [c \in Cameras |->
                       IF streaming[c] THEN FALSE ELSE sCamera[c]]
    /\ streamThread' = [c \in Cameras |->
                            IF streaming[c] THEN "none" ELSE streamThread[c]]
    /\ UNCHANGED <<mqttVars, busVars, indexVars, restOfDown, streamLast,
                   streamOps, serving>>

\* mqtt_client.stop(), after which stop() returns
DownMqtt ==
    /\ stopPc = "mqtt_client"
    /\ stopPc' = "returned"
    /\ stopped' = Append(stopped, "mqtt_client")
    /\ running' = FALSE
    /\ connected' = FALSE
    /\ UNCHANGED <<coreVars, reconnect_attempts, loopPc, link, subscribed,
                   failedAttempts, missed, busVars, indexVars, restOfDown,
                   streamVars, serving>>

\* a start-recording request handled by the API server's thread
DownApiStartRecording ==
    /\ serving
    /\ ApiStartRecording

\* a request for a camera's stream, which starts the streamer
DownStreamStart ==
    /\ serving
    /\ StreamStart

\* a message delivered by the bus client's loop
DownMqttMessage ==
    /\ running
    /\ MqttMessage

NextDown ==
    \/ DownBegin
    \/ DownApi
    \/ DownAuto
    \/ DownCameras
    \/ DownMqtt
    \/ DownApiStartRecording
    \/ DownStreamStart
    \/ DownMqttMessage

\* the assembled system while it runs and while stop() takes it down
SpecDown == Init /\ [][NextDown]_vars

\* the order in which stop() is to stop the components
StopOrder ==
    <<"api_server", "auto_recording_manager", "camera_manager",
      "mqtt_client">>

\* C28: system shutdown stops components in the order Control Plane,
\* Auto-Record Controller, Camera Manager, Bus Client, and once stop has
\* returned no recorder is recording and no streamer is streaming, even
\* if machine on messages arrive on the bus while shutdown is in progress.
C28_ShutdownStopsEverything ==
    /\ stopped = SubSeq(StopOrder, 1, Len(stopped))
    /\ stopPc = "returned"
           => \A c \in Cameras : ~recording[c] /\ ~streaming[c]

\* ------------------------------------------ discovery and recorder set-up
MaxDevices == 2
MaxDiscOps == 2

\* the values of the CameraStatus enumeration
CameraStatusValues ==
    {"unknown", "available", "busy", "error", "disconnected"}

\* CameraStatus(status.lower()), UNKNOWN when the constructor raises
\* ValueError
ToCameraStatus(str) ==
    IF str \in CameraStatusValues THEN str ELSE "unknown"

\* update_camera_status: the record is created if missing, its status set
StateManager_update_camera_status(st, c, str) ==
    [st EXCEPT ![c] = ToCameraStatus(str)]

\* camera_index_map
device_index(c) == IF c = "camera1" THEN 0 ELSE 1

\* _find_camera_device: the device at the camera's index, if there is one
HasDevice(c, n) == device_index(c) < n

\* the enabled cameras that no physical device matches
Unmatched(n, en) == {c \in ConfiguredCameras : en[c] /\ ~HasDevice(c, n)}

\* _initialize_recorders: an enabled camera with a device gets a recorder,
\* one without gets update_camera_status(status="not_found")
CameraManager_initialize_recorders(st, recs, n, en) ==
    LET RECURSIVE Each(_, _)
        Each(t, S) ==
            IF S = {} THEN t
            ELSE LET c == CHOOSE x \in S : TRUE
                 IN  Each(StateManager_update_camera_status(
                              t, c, "not_found"), S \ {c})
    IN  [status |-> Each(st, Unmatched(n, en)),
         recorders |-> recs \cup {c \in ConfiguredCameras :
                                      en[c] /\ HasDevice(c, n)}]

\* reinitialize_failed_camera of an enabled camera: the old recorder goes;
\* without a device the status is updated with "not_found", with one a
\* new recorder is registered and the status updated with "connected"
CameraManager_reinitialize(st, recs, n, c) ==
    IF HasDevice(c, n)
    THEN [status |-> StateManager_update_camera_status(st, c, "connected"),
          recorders |-> recs \cup {c}, ret |-> TRUE]
    ELSE [status |-> StateManager_update_camera_status(st, c, "not_found"),
          recorders |-> recs \ {c}, ret |-> FALSE]

\* CameraManager.__init__: _discover_cameras enumerates the devices and
\* marks camera<i+1> available for every device i
DiscConstruct ==
    /\ discLast.op = "none"
    /\ \E n \in 0..MaxDevices, en \in [ConfiguredCameras -> BOOLEAN] :
        /\ available_cameras' = n
        /\ enabled' = en
        /\ camStatus' = [c \in ConfiguredCameras |->
                             IF HasDevice(c, n) THEN "available"
                             ELSE camStatus[c]]
    /\ discLast' = [op |-> "construct", cams |-> {}]
    /\ UNCHANGED <<coreVars, mqttVars, busVars, indexVars, restOfDisc,
                   camera_recorders, discOps>>

\* CameraManager.start: _initialize_recorders
DiscInitializeRecorders ==
    /\ discLast.op = "construct"
    /\ LET r == CameraManager_initialize_recorders(
                    camStatus, camera_recorders, available_cameras, enabled)
       IN  /\ camStatus' = r.status
           /\ camera_recorders' = r.recorders
    /\ discLast' = [op |-> "init",
                    cams |-> Unmatched(available_cameras, enabled)]
    /\ UNCHANGED <<coreVars, mqttVars, busVars, indexVars, restOfDisc,
                   available_cameras, enabled, discOps>>

\* POST /cameras/{name}/reinitialize for an enabled camera
DiscReinitialize ==
    \E c \in ConfiguredCameras :
        /\ discLast.op \notin {"none", "construct"}
        /\ discOps < MaxDiscOps
        /\ enabled[c]
        /\ LET r == CameraManager_reinitialize(
                        camStatus, camera_recorders, available_cameras, c)
           IN  /\ camStatus' = r.status
               /\ camera_recorders' = r.recorders
        /\ discLast' = [op |-> "reinit",
                        cams |-> {c} \cap
                                 Unmatched(available_cameras, enabled)]
        /\ discOps' = discOps + 1
        /\ UNCHANGED <<coreVars, mqttVars, busVars, indexVars, restOfDisc,
                       available_cameras, enabled>>

\* CameraMonitor._check_camera_status: disconnected without a device,
\* else what the check of the device says
DiscMonitor ==
    \E c \in ConfiguredCameras,
       status \in {"available", "busy", "error", "disconnected"} :
        /\ discLast.op \notin {"none", "construct"}
        /\ discOps < MaxDiscOps
        /\ enabled[c]
        /\ status = "disconnected" <=> ~HasDevice(c, available_cameras)
        /\ camStatus' = IF camStatus[c] # status
                        THEN StateManager_update_camera_status(
                                 camStatus, c, status)
                        ELSE camStatus
        /\ discLast' = [op |-> "monitor", cams |-> {}]
        /\ discOps' = discOps + 1
        /\ UNCHANGED <<coreVars, mqttVars, busVars, indexVars, restOfDisc,
                       available_cameras, enabled, camera_recorders>>

NextDisc ==
    \/ DiscConstruct
    \/ DiscInitializeRecorders
    \/ DiscReinitialize
    \/ DiscMonitor

\* the camera manager finding devices for the configured cameras
SpecDisc == Init /\ [][NextDisc]_vars

\* C29: when no physical device matches a configured, enabled camera at
\* recorder initialisation or at reinitialize, the camera's status in the
\* State Store becomes not_found (distinct from unknown), and no recorder
\* is registered for it.
C29_UnmatchedCameraNotFound ==
    discLast.op \in {"init", "reinit"}
        => \A c \in discLast.cams :
               camStatus[c] = "not_found" /\ c \notin camera_recorders

\* ------------------------------------------- settings given with a start
\* C30: when a recording is started through manual_start_recording with
\* exposure, gain or fps values on a camera whose recorder is idle, the
\* recording that starts uses exactly those values (fps = 0 meaning no
\* sleep between grabs); the same holds for the configured values the
\* Auto-Record Controller passes.
C30_StartUsesRequestedSettings ==
    (hist.op = "start_settings" /\ hist.ok /\ ~hist.wasRec)
        => settings[hist.cam] = "requested"

\* ------------------------------------------- the start-recording route
\* POST /cameras/{name}/start-recording runs in two parts with the clock
\* free to advance between them: the call of manual_start_recording, which
\* reads the time stamp and names the file, and the building of the
\* response, which reads the time stamp again.

\* the route up to the return of camera_manager.manual_start_recording
RouteStartCall ==
    \E c \in Cameras, name \in {"none", "clip"}, o \in StartOutcomes :
        /\ apiPc = "idle"
        /\ starts < MaxStarts
        /\ OutcomeFits(St, c, o)
        /\ recording[c] => o = "ok"
        /\ LET s1 == CameraManager_manual_start_recording(St, c, name, o)
               h == [Observe(St, s1, "start", c) EXCEPT !.outcome = o]
           IN  /\ AssignCore([s1 EXCEPT !.hist = h])
               /\ request' = [cam |-> c, name |-> name, ok |-> s1.ret,
                              written |-> IF s1.ret THEN s1.outFile[c]
                                          ELSE NoFile]
        /\ apiPc' = "called"
        /\ UNCHANGED <<mqttVars, busVars, indexVars, oldAddVars, response,
                     restOfRoute>>

\* the rest of the route: actual_filename from a second
\* format_filename_timestamp() when a filename was supplied
RouteStartRespond ==
    /\ apiPc = "called"
    /\ response' =
           IF ~request.ok THEN NoResponse
           ELSE [success |-> TRUE,
                 filename |-> IF request.name # "none"
                              THEN MkFile(request.cam, request.name, clock)
                              ELSE NoFile]
    /\ apiPc' = "idle"
    /\ UNCHANGED <<coreVars, mqttVars, busVars, indexVars, oldAddVars,
                   request, restOfRoute>>

NextRoute ==
    \/ Tick
    \/ RouteStartCall
    \/ RouteStartRespond
    \/ ApiStopRecording
    \/ WorkerExit

SpecRoute == Init /\ [][NextRoute]_vars

\* C31: when start-recording is called with a supplied filename and
\* succeeds, the filename in the response equals the name of the file the
\* recorder writes, whatever the clock does between the two time stamp
\* reads.
C31_ResponseNamesWrittenFile ==
    (apiPc = "idle" /\ response.success /\ request.name # "none")
        => response.filename = request.written

\* ------------------------------------------------ payload normalization
\* _normalize_payload as a function of its argument: the payloads tried are
\* the words of the three lists and some others, in lower case, in upper
\* case and capitalised, with white space before and after.

\* longest run of white space put before and after a word
MaxPad == 1

UpperChar(ch) ==
    IF \E i \in 1..26 : LowerLetters[i] = ch
    THEN UpperLetters[CHOOSE i \in 1..26 : LowerLetters[i] = ch]
    ELSE ch

\* a word as a publisher may spell it
Spellings(w) ==
    {w, [i \in 1..Len(w) |-> UpperChar(w[i])],
     [i \in 1..Len(w) |-> IF i = 1 THEN UpperChar(w[i]) ELSE w[i]]}

\* payloads that are on none of the lists
OtherWords ==
    {<<>>, <<"i", "d", "l", "e">>, <<"o", " ", "n">>, <<"o", "n", "n">>,
     <<"2">>, <<"o", "f">>}

Pads == UNION {[1..n -> Whitespace] : n \in 0..MaxPad}

InputPayloads ==
    {l \o sp \o r :
        l \in Pads, r \in Pads,
        sp \in UNION {Spellings(w) :
                        w \in OnWords \cup OffWords \cup ErrorWords
                              \cup OtherWords}}

InitNormSpec ==
    /\ InitBase
    /\ InitSwitch
    /\ maxRetries = [c \in Cameras |-> DefaultMaxRetries]
    /\ autoEnabled = [c \in Cameras |-> TRUE]
    /\ payloadIn \in InputPayloads
    /\ normalized = NotCalled

\* the call
NormalizeCall ==
    /\ normalized = NotCalled
    /\ normalized' = normalize_payload(payloadIn)
    /\ UNCHANGED <<coreVars, mqttVars, busVars, indexVars, oldAddVars,
                   payloadIn, restOfNorm>>

NextNorm == NormalizeCall

SpecNorm == InitNormSpec /\ [][NextNorm]_vars

\* the trimmed lower-case form of a payload
TrimmedLower(p) == Lower(Strip(p))

\* C32: payload normalization is case-insensitive and trimmed: a payload
\* whose trimmed lower-case form is on, true, 1, start, running or active
\* normalizes to on; off, false, 0, stop, stopped or inactive to off;
\* error, fault or alarm to error; every other payload to its trimmed
\* lower-case raw string.
C32_NormalizationTable ==
    normalized # NotCalled =>
        LET t == TrimmedLower(payloadIn)
        IN  normalized =
              CASE t \in {<<"o", "n">>, <<"t", "r", "u", "e">>, <<"1">>,
                          <<"s", "t", "a", "r", "t">>,
                          <<"r", "u", "n", "n", "i", "n", "g">>,
                          <<"a", "c", "t", "i", "v", "e">>}
                     -> <<"o", "n">>
                [] t \in {<<"o", "f", "f">>, <<"f", "a", "l", "s", "e">>,
                          <<"0">>, <<"s", "t", "o", "p">>,
                          <<"s", "t", "o", "p", "p", "e", "d">>,
                          <<"i", "n", "a", "c", "t", "i", "v", "e">>}
                     -> <<"o", "f", "f">>
                [] t \in {<<"e", "r", "r", "o", "r">>,
                          <<"f", "a", "u", "l", "t">>,
                          <<"a", "l", "a", "r", "m">>}
                     -> <<"e", "r", "r", "o", "r">>
                [] OTHER -> t

\* C32 witness: a padded payload in upper case was normalized to off
C32_Witness ==
    /\ normalized = <<"o", "f", "f">>
    /\ payloadIn[1] \in Whitespace
    /\ payloadIn[Len(payloadIn)] \in Whitespace
    /\ Lower(payloadIn) # payloadIn
    /\ Len(payloadIn) > 5

\* C33: every change of the bus client's connected flag is mirrored and
\* announced: outside of a callback the State Store's mqtt_connected equals
\* the client's connected flag, and the last bus_connected /
\* bus_disconnected event published matches the flag once it has changed.
C33_ConnectedFlagMirrored ==
    /\ mqtt_connected = connected
    /\ connected => announced = "connected"
    /\ (~connected /\ announced # "none") => announced = "disconnected"

\* ----------------------------------- two threads in the StorageManager
\* The StorageManager holds no lock: file_index is a plain dict that the
\* recording event callbacks (register, finalize) and the control plane
\* (cleanup, list) reach from their own threads.  An operation is split
\* where it iterates over the dict: the scan loops of cleanup_old_files
\* and get_recording_files, and json.dump in _save_file_index.

\* the keys of file_index["files"]
Keys(idx) == {f \in Files : idx[f] # "none"}

\* register_recording_file / finalize_recording_file up to the call of
\* _save_file_index
GuardMutate ==
    \E f \in StoreFiles, op \in {"register", "finalize"} :
        /\ storePc["events"].pc = "idle"
        /\ op = "finalize" => index[f] # "none"
        /\ LET s1 == IF op = "register"
                     THEN register_recording_file(St, f)
                     ELSE finalize_recording_file(St, f)
           IN  /\ AssignCore(s1)
               /\ storePc' = [storePc EXCEPT !["events"] =
                                 [op |-> op, pc |-> "saving",
                                  keys |-> Keys(s1.index), cutoff |-> 0]]
        /\ UNCHANGED <<mqttVars, busVars, indexVars, oldAddVars,
                       restOfGuard>>

\* _save_file_index: json.dump has gone through the dict; a dict that
\* changed size under it may raise RuntimeError, which is logged
GuardSaved ==
    \E t \in StoreThreads, o \in {"ok", "dump_raises"} :
        /\ storePc[t].pc = "saving"
        /\ o = "dump_raises" => Keys(index) # storePc[t].keys
        /\ disk' = StorageManager_save_file_index(index, disk, o)
        /\ storePc' = [storePc EXCEPT ![t] = Outside]
        /\ UNCHANGED <<coreVars, mqttVars, busVars, savePc, prevDisk,
                       crashed, indexOps, oldAddVars, restOfGuard>>

\* cleanup_old_files / get_recording_files entering the loop over
\* file_index["files"].items()
GuardScanBegin ==
    \E op \in {"cleanup", "list"}, cutoff \in 0..(MaxStoreTs + 1) :
        /\ storePc["control"].pc = "idle"
        /\ op = "list" => cutoff = 0
        /\ storePc' = [storePc EXCEPT !["control"] =
                          [op |-> op, pc |-> "iterating",
                           keys |-> Keys(index), cutoff |-> cutoff]]
        /\ UNCHANGED <<coreVars, mqttVars, busVars, indexVars, oldAddVars,
                       restOfGuard>>

\* the loop ends: with RuntimeError if the dict changed size under it (the
\* operation's except clause returns), otherwise cleanup removes what it
\* collected and saves if it removed anything
GuardScanEnd ==
    /\ storePc["control"].pc = "iterating"
    /\ LET me == storePc["control"]
           r == StorageManager_cleanup_old_files(
                    index, fsFiles, me.cutoff, {})
           removes == /\ me.op = "cleanup"
                      /\ Keys(index) = me.keys
                      /\ r.files_removed > 0
       IN  /\ AssignCore([St EXCEPT !.index =
                             IF removes THEN r.index ELSE index])
           /\ fsFiles' = IF removes THEN r.fs ELSE fsFiles
           /\ storePc' = [storePc EXCEPT !["control"] =
                             IF removes
                             THEN [me EXCEPT !.pc = "saving",
                                             !.keys = Keys(r.index)]
                             ELSE Outside]
    /\ UNCHANGED <<mqttVars, busVars, indexVars, loaded, report, storeOps,
                   stateVars, streamVars, ringVars, downVars, discVars,
                   restOfGuard>>

\* a recording's file appears in the storage directory
GuardFileWritten ==
    \E f \in StoreFiles :
        /\ index[f] # "none"
        /\ f \notin fsFiles
        /\ fsFiles' = fsFiles \cup {f}
        /\ UNCHANGED <<coreVars, mqttVars, busVars, indexVars, loaded,
                       report, storeOps, stateVars, streamVars, ringVars,
                       downVars, discVars, lateVars>>

NextGuard ==
    \/ GuardMutate
    \/ GuardSaved
    \/ GuardScanBegin
    \/ GuardScanEnd
    \/ GuardFileWritten

SpecGuard == InitStoreSpec /\ [][NextGuard]_vars

\* C34: the in-memory recording index is guarded by a mutex: no step of
\* one thread changes the index while another thread is inside an
\* operation that iterates over or saves it.
C34_IndexGuardedByMutex ==
    [][\A t \in StoreThreads :
        (storePc'[t] # storePc[t] /\ index' # index)
            => \A u \in StoreThreads \ {t} :
                   storePc[u].pc \notin {"iterating", "saving"}]_vars

\* C35: whenever a recorder reports is_recording = true and no start or
\* stop call is in progress, its capture worker is alive; in particular a
\* worker that exits at once does not leave the recorder marked recording.
C35_RecordingHasLiveWorker ==
    \A c \in Cameras : recording[c] => worker[c] = "alive"

\* C36: a camera that is recording has no pending entry in the retry
\* queue, and the scheduler never marks a camera with the terminal "max
\* retry attempts reached" error while that camera records.
C36_RecordingNotQueued ==
    /\ \A c \in Cameras : recording[c] => ~InQueue(queue, c)
    /\ ~(hist.op = "retry" /\ ~hist.ok /\ lastError[hist.cam]
         /\ recording[hist.cam] /\ camRec[hist.cam])

\* ------------------------------- the controller and the reported state
\* machine_state_changed on the instance bus, with the state it reports
\* kept for comparison
MachineEventSeen ==
    \E m \in Machines, state \in {OnStr, OffStr, ErrorStr} :
    \E o1, o2 \in StartOutcomes :
        /\ MachinePublish(m, state, o1, o2)
        /\ lastEvent' = [lastEvent EXCEPT ![m] = StateName(state)]
        /\ UNCHANGED <<mqttVars, busVars, indexVars, oldAddVars,
                       restOfSeen>>

NextSeen ==
    \/ Tick
    \/ MachineEventSeen
    \/ RetryScan
    \/ RetryProcess
    \/ WorkerExit

SpecSeen == InitCtl /\ [][NextSeen]_vars

\* C37: after a machine_state_changed event with state error (or any state
\* other than on) for a machine, no recording is started for the mapped
\* camera by the controller or its retry scheduler until the next on event
\* for that machine.
C37_NoStartUnlessOn ==
    [][\A c \in Cameras :
        (~recording[c] /\ recording'[c])
            => lastEvent'[machine_topic(c)] = "on"]_vars

\* --------------------------------------------- the controller's switch
\* the controller as USDAVisionSystem.__init__ leaves it, subscribed to
\* machine_state_changed but not started, with either value of
\* system.auto_recording_enabled
InitSwitchSpec ==
    /\ InitBase
    /\ InitNorm
    /\ maxRetries = [c \in Cameras |-> DefaultMaxRetries]
    /\ autoEnabled = [c \in Cameras |-> TRUE]
    /\ sysAutoEnabled \in BOOLEAN
    /\ autoStarted = FALSE
    /\ autoRunning = FALSE

\* AutoRecordingManager.start(): with the switch off it returns at once,
\* otherwise the retry thread is started
SwitchStart ==
    /\ ~autoStarted
    /\ autoStarted' = TRUE
    /\ autoRunning' = sysAutoEnabled
    /\ UNCHANGED <<coreVars, mqttVars, busVars, indexVars, oldAddVars,
                   sysAutoEnabled, restOfSwitch>>

\* a machine event once the system is up
SwitchMachineEvent == autoStarted /\ MachineEvent

\* the retry thread, if there is one
SwitchRetryScan == autoRunning /\ RetryScan
SwitchRetryProcess == autoRunning /\ RetryProcess

NextSwitch ==
    \/ Tick
    \/ SwitchStart
    \/ SwitchMachineEvent
    \/ SwitchRetryScan
    \/ SwitchRetryProcess
    \/ WorkerExit

SpecSwitch == InitSwitchSpec /\ [][NextSwitch]_vars

\* C38: when system.auto_recording_enabled is false, the controller never
\* issues a start or stop for any camera in reaction to machine events and
\* never leaves an entry in the retry queue.
C38_SwitchOffMeansNoAction ==
    ~sysAutoEnabled
        => /\ queue = <<>>
           /\ \A c \in Cameras : ctlLog[c] = <<>> /\ ~autoActive[c]
           /\ hist.ctlStarts = 0

\* ------------------------------------------- the index and its file ids
\* register_recording_file: the entry goes under the basename of the path
StorageManager_register_recording_file(idx, p) ==
    [idx EXCEPT ![basename(p)] =
        [camera_name |-> p.cam, filename |-> p, status |-> "recording"]]

\* finalize_recording_file: the entry under the file_id, if there is one,
\* becomes completed
StorageManager_finalize_recording_file(idx, id) ==
    IF idx[id] = NoEntry THEN idx
    ELSE [idx EXCEPT ![id].status = "completed"]

\* on_recording_started for a recording that a manual start has just made
KeyedRegister ==
    \E c \in ConfiguredCameras, k \in {"clip", "manual"} :
        LET p == [cam |-> c, kind |-> k, ts |-> clock]
        IN  /\ \A id \in FileIds : file_index[id].filename # p
            /\ file_index' =
                   StorageManager_register_recording_file(file_index, p)
            /\ UNCHANGED <<coreVars, mqttVars, busVars, indexVars,
                           oldAddVars, restOfKeyed>>

\* on_recording_stopped for a recording that was registered
KeyedFinalize ==
    \E id \in FileIds :
        /\ file_index[id].status = "recording"
        /\ file_index' =
               StorageManager_finalize_recording_file(file_index, id)
        /\ UNCHANGED <<coreVars, mqttVars, busVars, indexVars, oldAddVars,
                       restOfKeyed>>

NextKeyed ==
    \/ Tick
    \/ KeyedRegister
    \/ KeyedFinalize

SpecKeyed == InitStoreSpec /\ [][NextKeyed]_vars

\* C39: every registered recording keeps its own index entry: registering
\* a recording never overwrites or removes the entry of a different
\* recording, also when two recordings of different cameras have files of
\* the same basename.
C39_RegisterKeepsOtherEntries ==
    [][\A id \in FileIds :
        file_index[id] # NoEntry
            => file_index'[id].filename = file_index[id].filename]_vars

\* ---------------------------------------------------------------------
\* The locks: which thread takes which lock while holding which
\* ---------------------------------------------------------------------

\* a call is the sequence of lock operations and joins it performs
Acq(l) == [k |-> "acq", l |-> l]
Rel(l) == [k |-> "rel", l |-> l]
Join == [k |-> "join", l |-> "none"]

\* "with lock:" around code that takes no lock and waits for nothing, run
\* by a thread that holds no lock: the block is one step
With(l) == [k |-> "with", l |-> l]
Section(l) == <<With(l)>>

\* the same block run by a thread that holds another lock
Nested(l) == <<Acq(l), Rel(l)>>

\* the convenience publishers inside the recorder's lock: EventSystem.publish
\* on the module-global bus appends to the history under the bus lock,
\* _notify_subscribers copies the subscriber list under it and calls the
\* callbacks outside it
publish_global == Nested("gbus") \o Nested("gbus")

\* CameraRecorder.start_recording: everything under the recorder's lock; a
\* refused start returns at once, a start that goes through records it in
\* the state store and publishes recording_started
start_refused == Nested("recorder")
start_done ==
    <<Acq("recorder")>> \o Nested("state") \o publish_global
        \o <<Rel("recorder")>>
CameraRecorder_start_recording_locks == {start_refused, start_done}

\* CameraRecorder.stop_recording: under the recorder's lock; not recording
\* returns at once, otherwise join(timeout=5) on the capture thread, the
\* state store, recording_stopped
stop_refused == Nested("recorder")

\* a stop_recording that asks the camera manager for the camera status
\* while it holds the recorder's lock
stop_done_callback ==
    <<Acq("recorder"), Join>> \o Nested("manager") \o Nested("state")
        \o publish_global \o <<Rel("recorder")>>

stop_done ==
    <<Acq("recorder"), Join>> \o Nested("state") \o publish_global
        \o <<Rel("recorder")>>
CameraRecorder_stop_recording_locks == {stop_refused, stop_done}

\* what the two subscribers of machine_state_changed do in turn,
\* CameraManager's first and AutoRecordingManager's second
\*   on:  the camera manager starts the recorder unless it records; the
\*        auto-recorder reads the camera status, and if the camera does not
\*        record starts it (status again) or queues a retry
\*   off: the camera manager stops the recorder if it records; the
\*        auto-recorder reads the status, clears the retry entry and stops
on_machine_state_changed_locks ==
    LET st == Section("state")
    IN  { st,
          start_done \o st,
          start_refused \o st \o start_done \o st,
          start_refused \o st \o start_refused \o Section("retry"),
          st \o Section("retry") \o stop_refused,
          stop_done \o st \o Section("retry") \o stop_refused,
          st \o Section("retry") \o stop_done }

\* the subscribers are called one after the other by the publishing thread
Notify == [k |-> "notify", l |-> "none"]

\* a machine message: update_machine_state, then publish on the bus: the
\* history and the copy of the subscriber list under its lock, the
\* subscribers outside it
MachineEvent_locks ==
    {Section("state") \o Section("bus") \o Section("bus") \o <<Notify>>}

\* AutoRecordingManager._retry_loop: the queue is scanned under the retry
\* lock; a due entry goes through _process_retry outside it
\* (get_camera_status, start, then the queue again)
AutoRecordingManager_retry_loop_locks ==
    {Section("retry")}
    \cup {Section("retry") \o Section("state") \o p \o Section("retry") :
             p \in CameraRecorder_start_recording_locks}

\* the control plane: manual start, manual stop, reinitialize (state store
\* under the manager's lock), status of all cameras
ControlPlane_locks ==
    CameraRecorder_start_recording_locks
    \cup CameraRecorder_stop_recording_locks
    \cup { <<Acq("manager")>> \o Nested("state") \o <<Rel("manager")>>,
           Section("manager") }

\* shutdown, CameraManager.stop: the monitor thread is joined with a
\* timeout, the recorder is stopped under the manager's lock (nothing to
\* stop: cleanup alone), the streamers under it again
CameraManager_stop_locks ==
    {<<Join, Acq("manager")>> \o stop_done \o <<Rel("manager")>>
         \o Section("manager"),
     <<Join>> \o Section("manager") \o Section("manager")}

\* the capture thread takes no lock of the recorder; a fatal error is
\* published (recording_error) on the module-global bus
CameraRecorder_recording_loop_locks == {Section("gbus") \o Section("gbus")}

\* what a thread may call
LockPrograms(t) ==
    CASE t = "events" -> MachineEvent_locks
      [] t = "retry" -> AutoRecordingManager_retry_loop_locks
      [] t = "api" -> ControlPlane_locks
      [] t = "main" -> CameraManager_stop_locks
      [] t = "worker" -> CameraRecorder_recording_loop_locks

\* a thread enters one of its calls; the main thread shuts down once
LockCall(t) ==
    /\ todo[t] = <<>>
    /\ t = "main" => ~shutdownStarted
    /\ \E p \in LockPrograms(t) : p # <<>> /\ todo' = [todo EXCEPT ![t] = p]
    /\ shutdownStarted' = (shutdownStarted \/ t = "main")
    /\ UNCHANGED <<lockOwner, lockDepth>>
    /\ UNCHANGED <<coreVars, mqttVars, busVars, indexVars, oldAddVars,
                   restOfLocks>>

\* RLock.acquire: free, or held by the caller already
LockAcquire(t) ==
    /\ todo[t] # <<>>
    /\ Head(todo[t]).k = "acq"
    /\ LET l == Head(todo[t]).l IN
       /\ lockOwner[l] \in {"none", t}
       /\ lockOwner' = [lockOwner EXCEPT ![l] = t]
       /\ lockDepth' = [lockDepth EXCEPT ![l] = @ + 1]
    /\ todo' = [todo EXCEPT ![t] = Tail(@)]
    /\ UNCHANGED shutdownStarted
    /\ UNCHANGED <<coreVars, mqttVars, busVars, indexVars, oldAddVars,
                   restOfLocks>>

\* RLock.release: the lock is free when the outermost block is left
LockRelease(t) ==
    /\ todo[t] # <<>>
    /\ Head(todo[t]).k = "rel"
    /\ LET l == Head(todo[t]).l IN
       /\ lockOwner[l] = t
       /\ lockDepth' = [lockDepth EXCEPT ![l] = @ - 1]
       /\ lockOwner' = [lockOwner EXCEPT
                           ![l] = IF lockDepth[l] = 1 THEN "none" ELSE t]
    /\ todo' = [todo EXCEPT ![t] = Tail(@)]
    /\ UNCHANGED shutdownStarted
    /\ UNCHANGED <<coreVars, mqttVars, busVars, indexVars, oldAddVars,
                   restOfLocks>>

\* Thread.join(timeout=...): returns when the thread has ended or when the
\* timeout has passed, whatever the other thread does
LockJoin(t) ==
    /\ todo[t] # <<>>
    /\ Head(todo[t]).k = "join"
    /\ todo' = [todo EXCEPT ![t] = Tail(@)]
    /\ UNCHANGED <<lockOwner, lockDepth, shutdownStarted>>
    /\ UNCHANGED <<coreVars, mqttVars, busVars, indexVars, oldAddVars,
                   restOfLocks>>

\* a whole "with lock:" block that takes no further lock
LockSection(t) ==
    /\ todo[t] # <<>>
    /\ Head(todo[t]).k = "with"
    /\ lockOwner[Head(todo[t]).l] \in {"none", t}
    /\ todo' = [todo EXCEPT ![t] = Tail(@)]
    /\ UNCHANGED <<lockOwner, lockDepth, shutdownStarted>>
    /\ UNCHANGED <<coreVars, mqttVars, busVars, indexVars, oldAddVars,
                   restOfLocks>>

\* EventSystem._notify_subscribers: the callbacks run in the thread that
\* published, each to its end before the next
LockNotify(t) ==
    /\ todo[t] # <<>>
    /\ Head(todo[t]).k = "notify"
    /\ \E p \in on_machine_state_changed_locks :
          todo' = [todo EXCEPT ![t] = p \o Tail(@)]
    /\ UNCHANGED <<lockOwner, lockDepth, shutdownStarted>>
    /\ UNCHANGED <<coreVars, mqttVars, busVars, indexVars, oldAddVars,
                   restOfLocks>>

NextLocks ==
    \/ \E t \in LockThreads : LockCall(t)
    \/ \E t \in LockThreads : LockAcquire(t)
    \/ \E t \in LockThreads : LockRelease(t)
    \/ \E t \in LockThreads : LockJoin(t)
    \/ \E t \in LockThreads : LockSection(t)
    \/ \E t \in LockThreads : LockNotify(t)

SpecLocks == Init /\ [][NextLocks]_vars

\* the thread is inside a call and the lock it asks for is held by another
LockWaiting(t) ==
    /\ todo[t] # <<>>
    /\ Head(todo[t]).k \in {"acq", "with"}
    /\ lockOwner[Head(todo[t]).l] \notin {"none", t}

\* the thread's next step inside its call can be taken now
LockCanStep(t) == todo[t] # <<>> /\ ~LockWaiting(t)

\* the thread can step, or it waits for a lock whose holder will be able
\* to give it up: the chain of holders, at most n long, ends in a thread
\* that can step
RECURSIVE LockProgress(_, _)
LockProgress(t, n) ==
    \/ LockCanStep(t)
    \/ /\ n > 0
       /\ LockWaiting(t)
       /\ LockProgress(lockOwner[Head(todo[t]).l], n - 1)

\* C40: deadlock freedom. In every interleaving of machine-event callbacks,
\* the retry scheduler, capture workers, control-plane calls and shutdown,
\* a thread inside a call (stop_recording among them) either can take its
\* next step or waits for a lock at the end of a chain of holders that can:
\* no set of threads waits for each other, so every call returns.
C40_DeadlockFree ==
    \A t \in LockThreads :
        todo[t] # <<>> => LockProgress(t, Cardinality(LockThreads))

\* the shutdown holds the manager's lock and waits for the recorder's
\* lock, which a control-plane stop_recording holds during its join
C40_Witness ==
    /\ lockOwner["manager"] = "main"
    /\ LockWaiting("main")
    /\ lockOwner["recorder"] = "api"
    /\ Head(todo["api"]).k = "join"

====
